---- MODULE Spec2Model ----
(***************************************************************************)
(* Stock service of stock-management-microservices: the movement ledger    *)
(* (StockMovement collection), the level aggregate (StockLevel collection) *)
(* and the request handlers addStockEntry / removeStockExit of the stock   *)
(* controller, each split at its awaits so that concurrent requests        *)
(* interleave exactly where the event loop lets them; and the circuit      *)
(* breaker that guards the lookup in the products service.                 *)
(***************************************************************************)
EXTENDS Integers, Sequences, FiniteSets, TLC

(* ---------------------------------------------------------------- bounds *)
\* requests received in one behaviour
MaxRequests == 3

\* the request handlers that can be in flight at the same time
Tasks == {1, 2}
\* productId values of the requests
Products == {"X"}
\* quantity values of the requests (validated upstream: integers >= 1)
Quantities == {4, 10}
\* execute calls made on the breaker in one behaviour
MaxCalls == 5

(* ------------------------------------------------------- program values *)
\* MOVEMENT_TYPES
ENTRY == "entry"
EXIT == "exit"
MOVEMENT_TYPES == {ENTRY, EXIT}

\* JavaScript null / undefined, as a value comparable with objects
NullValue == [isNull |-> TRUE]
Truthy(v) == v # NullValue

\* absent number in a response
NA == 0 - 1

\* no read handler is in flight
IdleReader == [pc |-> "idle"]

\* parseInt(process.env.DEFAULT_LOW_STOCK_THRESHOLD) || 10
DEFAULT_LOW_STOCK_THRESHOLD == 10

\* the product document the products service holds for a productId
RemoteProduct(p) == [_id |-> p, name |-> "product", sku |-> "sku",
                     lowStockThreshold |-> DEFAULT_LOW_STOCK_THRESHOLD]

\* the two response bodies of GET /api/products/:id (both controllers)
ProductBodies(p) == { [success |-> TRUE, data |-> RemoteProduct(p)],
                      [success |-> TRUE, product |-> RemoteProduct(p)] }

\* the fallback function given to getCircuitBreaker for products-service
FallbackValue == [_isFallback |-> TRUE,
                  name |-> "Unknown (products-service unavailable)",
                  sku |-> "N/A",
                  lowStockThreshold |-> DEFAULT_LOW_STOCK_THRESHOLD]

\* obj?.field, for the fields that hold an object
Field(obj, f) == IF f \in DOMAIN obj THEN obj[f] ELSE NullValue

\* a value thrown (a rejected promise) instead of returned
Thrown(error) == [thrown |-> error]
IsThrown(v) == "thrown" \in DOMAIN v

\* the error of a failed request to the products service, as axios raises it
TransportError == "Request failed"

\* a lookup that hands the failure of the remote call to its caller
GetProductInfoUncontained(data) ==
    IF data = FallbackValue THEN Thrown(TransportError)
    ELSE IF Truthy(Field(data, "data")) THEN Field(data, "data")
    ELSE IF Truthy(Field(data, "product")) THEN Field(data, "product")
    ELSE NullValue

\* getProductInfo: try { return data?.data || data?.product || null }
\* catch { return null }; with the fallback configured, execute resolves, so
\* the try block returns
GetProductInfo(data) ==
    IF Truthy(Field(data, "data")) THEN Field(data, "data")
    ELSE IF Truthy(Field(data, "product")) THEN Field(data, "product")
    ELSE NullValue

\* product._isFallback
IsFallback(prod) == "_isFallback" \in DOMAIN prod /\ prod._isFallback

(* ------------------------------------------------- circuit breaker *)
\* DEFAULT_OPTIONS, overridden by the options of productsBreaker (times in ms)
timeout == 5000
errorThresholdPercentage == 50
resetTimeout == 30000
volumeThreshold == 3
rollingCountTimeout == 10000
rollingCountBuckets == 10

\* the interval at which the rolling window drops its oldest bucket
BucketInterval == rollingCountTimeout \div rollingCountBuckets

CLOSED == "CLOSED"
OPEN == "OPEN"
HALF_OPEN == "HALF_OPEN"

\* the counters of one bucket of the rolling window
EmptyBucket == [fires |-> 0, failures |-> 0, successes |-> 0, timeouts |-> 0,
                rejects |-> 0, fallbacks |-> 0]

(* ------------------------------------------------------------- state *)
VARIABLES
    stockLevels,   \* StockLevel collection: productId -> stored document
    movements,     \* StockMovement collection, in insertion order
    clock,         \* Date.now(), advanced by every read that is stored
    nextReq,       \* number of requests received so far
    pc,            \* per task: the await the handler is suspended at
    args,          \* per task: req.body and the request's identity
    product,       \* per task: the handler's local `product`
    doc,           \* per task: the handler's in-memory StockLevel document
    seen,          \* per task: the StockLevel document as getOrCreate returned it
    movement,      \* per task: the StockMovement document create() has constructed
    fallbackUsed,  \* per task: productsBreaker.execute resolved to the fallback value
    responses,     \* the HTTP responses sent, in order
    cbState,       \* breaker: CLOSED, OPEN or HALF_OPEN
    pendingClose,  \* breaker: HALF_OPEN and the probe not yet admitted
    window,        \* breaker: the rolling window, newest bucket first
    inflight,      \* breaker: ms left on the timeout timer of each pending call
    resetTimer,    \* breaker: ms left on the reset timer started by open()
    timerArmed,    \* breaker: the reset timer is set and has not fired or been cleared
    fired,         \* execute calls made so far
    hasFallback,   \* breaker: a fallbackFn was given to createCircuitBreaker
    results,       \* what each execute call settled with, in order of settling
    openFor,       \* ms the breaker has spent in OPEN since it last entered it
    phase,         \* ms since the last instant at which execute calls arrive
    late,          \* remote calls still outstanding after their timeout was reported
    owner,         \* for each pending call of inflight, the caller that awaits it
    alerts,        \* the last response of getLowStockAlerts
    summary,       \* the last response of getStockSummary
    level,         \* the last response of getProductStockLevel
    listed,        \* what the last call of StockMovement.getByProduct returned
    reader,        \* the read handler in flight: the await it is suspended at, and its locals
    registry,      \* the registry Map: serviceName -> breaker instance
    created,       \* number of createCircuitBreaker calls made by the registry
    handed,        \* the getCircuitBreaker calls so far, each with what it returned
    report,        \* what the last call of getAllCircuitBreakerStats returned
    peerState,     \* the state of the breaker registered for suppliers-service
    health,        \* the last response of GET /health/circuit-breakers
    reconnectAttempts, \* RabbitMQClient.reconnectAttempts
    isConnected,   \* RabbitMQClient.isConnected
    connection,    \* RabbitMQClient.connection: "null", or the newest connection
                   \* amqp.connect resolved with, "open" or "closed"
    connections,   \* the open amqp connections, oldest first, each with the number
                   \* of connect() calls that registered their listeners on it,
                   \* whether its createChannel() is pending, whether this.channel
                   \* is on it and whether close() awaits its close
    connecting,    \* connect() calls suspended at await amqp.connect
    orphaned,      \* connect() calls suspended at createChannel() on a connection
                   \* that has closed since
    timers,        \* reconnect timers set by handleReconnect and not yet expired
    connects,      \* connect() calls made from outside the client so far
    failedRun,     \* connect() calls that failed since the last successful one
    channel,       \* RabbitMQClient.channel: "null", or the channel the last
                   \* successful connect() created, "open" or "closed"
    closing,       \* the await the close() call in flight is suspended at
    closes         \* close() calls made so far

stockVars == <<stockLevels, movements, clock, nextReq, pc, args, product, doc, seen,
               movement, fallbackUsed, responses>>
breakerVars == <<cbState, pendingClose, window, inflight, resetTimer, timerArmed,
                 fired, hasFallback, results, openFor, phase, late, owner>>
queryVars == <<alerts, summary, level, listed, reader>>
registryVars == <<registry, created, handed, report, peerState, health>>
rabbitVars == <<reconnectAttempts, isConnected, connection, connections, connecting,
                orphaned, timers, connects, failedRun, channel, closing, closes>>
vars == <<stockVars, breakerVars, queryVars, registryVars, rabbitVars>>

NoArgs == [req |-> 0, type |-> ENTRY, productId |-> "X", quantity |-> 0]
NoDoc == [currentQuantity |-> 0, lastUpdated |-> 0]
NoMovement == [req |-> 0, productId |-> "X", type |-> ENTRY, quantity |-> 0,
               timestamp |-> 0]

\* the collections of a new database
EmptyDb == [levels |-> << >>, ledger |-> << >>, now |-> 0]

\* the collections left by an earlier run of the service: an entry of 4 on X,
\* then entries of 10 and of 4 on Y
StockedDb ==
    [levels |-> ("X" :> [currentQuantity |-> 4, lastUpdated |-> 2])
                @@ ("Y" :> [currentQuantity |-> 14, lastUpdated |-> 5]),
     ledger |-> << [req |-> 1, productId |-> "X", type |-> ENTRY, quantity |-> 4,
                    timestamp |-> 2],
                   [req |-> 2, productId |-> "Y", type |-> ENTRY, quantity |-> 10,
                    timestamp |-> 4],
                   [req |-> 3, productId |-> "Y", type |-> ENTRY, quantity |-> 4,
                    timestamp |-> 5] >>,
     now |-> 5]

\* DEFAULT_OPTIONS of createCircuitBreaker
DEFAULT_OPTIONS ==
    [timeout |-> timeout, errorThresholdPercentage |-> errorThresholdPercentage,
     resetTimeout |-> resetTimeout, volumeThreshold |-> volumeThreshold,
     rollingCountTimeout |-> rollingCountTimeout,
     rollingCountBuckets |-> rollingCountBuckets]
\* the options the stock controller passes for products-service, and options
\* another caller may pass
ProductsOptions ==
    [timeout |-> timeout, errorThresholdPercentage |-> errorThresholdPercentage,
     resetTimeout |-> resetTimeout, volumeThreshold |-> volumeThreshold]
OtherOptions == [timeout |-> 1000, volumeThreshold |-> 5]
OptionChoices == {ProductsOptions, OtherOptions}
ServiceNames == {"products-service", "suppliers-service"}

\* { ...DEFAULT_OPTIONS, ...options, name: serviceName }
MergeOptions(options) ==
    [f \in DOMAIN DEFAULT_OPTIONS |->
        IF f \in DOMAIN options THEN options[f] ELSE DEFAULT_OPTIONS[f]]

\* createCircuitBreaker(serviceName, options, fallbackFn): a new instance
\* (id is the object's identity: the number of the createCircuitBreaker call)
CreateCircuitBreaker(id, serviceName, options, fallbackFn) ==
    [id |-> id, name |-> serviceName, options |-> MergeOptions(options),
     fallback |-> fallbackFn]

\* registry.has(serviceName)
\* (HasNever: the variant that finds no entry)
HasNever(reg, serviceName) == FALSE
Has(reg, serviceName) == serviceName \in DOMAIN reg

\* one getCircuitBreaker call as handed records it
Handed(serviceName, options, fallbackFn, instance) ==
    [name |-> serviceName, options |-> options, fallback |-> fallbackFn,
     instance |-> instance]

\* the registry once the stock controller has been loaded: products-service
\* registered by the call that creates productsBreaker
ProductsBreaker(fallbackFn) ==
    CreateCircuitBreaker(1, "products-service", ProductsOptions, fallbackFn)

\* new RabbitMQClient(): no connection, reconnectAttempts 0
Disconnected ==
    /\ reconnectAttempts = 0
    /\ isConnected = FALSE
    /\ connection = "null"
    /\ connections = << >>
    /\ connecting = 0
    /\ orphaned = 0
    /\ timers = 0
    /\ connects = 0
    /\ failedRun = 0
    /\ channel = "null"
    /\ closing = "idle"
    /\ closes = 0

\* the state once the service has started on database db: idle handlers, and
\* the breaker as createCircuitBreaker(serviceName, options, fallbackFn)
\* leaves it (fallbackFn given or null)
Constructed(fallbackFn, db) ==
    /\ stockLevels = db.levels
    /\ movements = db.ledger
    /\ clock = db.now
    /\ nextReq = 0
    /\ pc = [t \in Tasks |-> "idle"]
    /\ args = [t \in Tasks |-> NoArgs]
    /\ product = [t \in Tasks |-> NullValue]
    /\ doc = [t \in Tasks |-> NoDoc]
    /\ seen = [t \in Tasks |-> NoDoc]
    /\ movement = [t \in Tasks |-> NoMovement]
    /\ fallbackUsed = [t \in Tasks |-> FALSE]
    /\ responses = << >>
    /\ cbState = CLOSED
    /\ pendingClose = FALSE
    /\ window = [b \in 1..rollingCountBuckets |-> EmptyBucket]
    /\ inflight = << >>
    /\ owner = << >>
    /\ resetTimer = 0
    /\ timerArmed = FALSE
    /\ late = 0
    /\ fired = 0
    /\ hasFallback = fallbackFn
    /\ results = << >>
    /\ openFor = 0
    /\ phase = 0
    /\ alerts = NullValue
    /\ summary = NullValue
    /\ level = NullValue
    /\ listed = NullValue
    /\ reader = IdleReader
    /\ registry = ("products-service" :> ProductsBreaker(fallbackFn))
    /\ created = 1
    /\ handed = << Handed("products-service", ProductsOptions, fallbackFn,
                           ProductsBreaker(fallbackFn)) >>
    /\ report = NullValue
    /\ peerState = CLOSED
    /\ health = NullValue
    /\ Disconnected

\* productsBreaker is created with a fallback function
Init == Constructed(TRUE, EmptyDb)

\* a breaker created with or without a fallback function
InitBreaker == \E fallbackFn \in BOOLEAN : Constructed(fallbackFn, EmptyDb)

\* the stock service restarted on a new or on a stocked database
InitStocked == \E db \in {EmptyDb, StockedDb} : Constructed(TRUE, db)

(* ----------------------------------------------------------- helpers *)
\* the signed delta a handler passes to updateQuantity: quantity in
\* addStockEntry, -quantity in removeStockExit
\* (DeltaUnsigned: the variant that passes quantity in both)
DeltaUnsigned(a) == a.quantity
Delta(a) == IF a.type = ENTRY THEN a.quantity ELSE 0 - a.quantity

\* removeStockExit: if (stockLevel.currentQuantity < quantity)
\* (InsufficientStockInclusive: the variant that also rejects an exact fit)
InsufficientStockInclusive(d, quantity) == d.currentQuantity <= quantity
InsufficientStock(d, quantity) == d.currentQuantity < quantity

\* updateQuantity, the synchronous part: this.currentQuantity += delta;
\* if (this.currentQuantity < 0) throw ...; this.lastUpdated = new Date().
\* The throw leaves lastUpdated as it was.
UpdateQuantity(d, delta, now) ==
    [currentQuantity |-> d.currentQuantity + delta,
     lastUpdated |-> IF d.currentQuantity + delta < 0 THEN d.lastUpdated ELSE now]

\* updateQuantity: if (this.currentQuantity < 0) throw new Error("Insufficient stock")
UpdateQuantityThrows(d) == d.currentQuantity < 0

\* this.save(): the modified paths of the in-memory document are $set on the
\* stored one, whatever the stored one holds by now
\* (SaveIncrement: the variant that applies the delta to the stored quantity
\* without a condition, as an unguarded $inc would)
SaveIncrement(levels, p, d, delta) ==
    [levels EXCEPT ![p] = [currentQuantity |-> levels[p].currentQuantity + delta,
                           lastUpdated |-> d.lastUpdated]]
\* (SaveOrDelete: the variant that removes a document left with quantity 0)
SaveOrDelete(levels, p, d, delta) ==
    IF d.currentQuantity = 0
    THEN [q \in DOMAIN levels \ {p} |-> levels[q]]
    ELSE [levels EXCEPT ![p] = d]
\* (SaveEvery: the variant whose update has no productId filter)
SaveEvery(levels, p, d, delta) == [q \in DOMAIN levels |-> d]
Save(levels, p, d, delta) == [levels EXCEPT ![p] = d]

\* StockMovement.create: the new document is inserted into the collection
\* (InsertUpsert: the variant that keeps one movement per product, replacing
\* the one the product has)
InsertUpsert(ledger, m) ==
    Append(SelectSeq(ledger, LAMBDA x : x.productId # m.productId), m)
Insert(ledger, m) == Append(ledger, m)

\* new StockLevel({ productId, currentQuantity: 0 }): the document create()
\* constructs before it awaits the insert; lastUpdated is the schema default
\* Date.now, read at construction
NewLevel(now) == [currentQuantity |-> 0, lastUpdated |-> now]

\* StockMovement.create({productId, type, quantity, ...}): the document
\* create() constructs before it awaits the insert; timestamp is the schema
\* default Date.now, read at construction
NewMovement(a, now) ==
    [req |-> a.req, productId |-> a.productId, type |-> a.type,
     quantity |-> a.quantity, timestamp |-> now]

\* the responses of the two handlers
\* (seen and fallback are not part of the body: they record what the handler
\* had read when it answered)
NotFound(a, fb) ==
    [req |-> a.req, type |-> a.type, productId |-> a.productId,
     quantity |-> a.quantity, status |-> 404, message |-> "Product not found",
     available |-> NA, requested |-> NA, currentStock |-> NA,
     warning |-> FALSE, seen |-> NoDoc, fallback |-> fb]
Insufficient(a, d, fb) ==
    [req |-> a.req, type |-> a.type, productId |-> a.productId,
     quantity |-> a.quantity, status |-> 400, message |-> "Insufficient stock",
     available |-> d.currentQuantity, requested |-> a.quantity,
     currentStock |-> NA, warning |-> FALSE, seen |-> d, fallback |-> fb]
Recorded(a, d, prod, read, fb) ==
    [req |-> a.req, type |-> a.type, productId |-> a.productId,
     quantity |-> a.quantity, status |-> 201,
     message |-> IF a.type = ENTRY THEN "Stock entry recorded successfully"
                 ELSE "Stock exit recorded successfully",
     available |-> NA, requested |-> NA, currentStock |-> d.currentQuantity,
     warning |-> IsFallback(prod), seen |-> read, fallback |-> fb]
\* the errors a handler's promise can reject with: the duplicate-key error
\* of the unique index on productId (err.code === 11000, keyPattern
\* { productId: 1 }), or an Error that carries only a message
DuplicateKey == "E11000"
StorageError == "error"

\* errorHandler: a duplicate-key error becomes
\* new ConflictError(`${field} already exists`), whose constructor appends
\* " already exists" once more and sets statusCode 409; any other error
\* without a statusCode is answered 500 with its own message
ErrorHandler(err) ==
    IF err = DuplicateKey
    THEN [status |-> 409, message |-> "productId already exists already exists"]
    ELSE [status |-> 500, message |-> err]

\* asyncHandler: Promise.resolve(fn(req, res, next)).catch(next), and the
\* response errorHandler sends for the error
Unhandled(a, error, fb) ==
    [req |-> a.req, type |-> a.type, productId |-> a.productId,
     quantity |-> a.quantity, status |-> ErrorHandler(error).status,
     message |-> ErrorHandler(error).message,
     available |-> NA, requested |-> NA, currentStock |-> NA,
     warning |-> FALSE, seen |-> NoDoc, fallback |-> fb]
ServerError(a, error, read, fb) ==
    [req |-> a.req, type |-> a.type, productId |-> a.productId,
     quantity |-> a.quantity, status |-> ErrorHandler(error).status,
     message |-> ErrorHandler(error).message,
     available |-> NA, requested |-> NA, currentStock |-> NA,
     warning |-> FALSE, seen |-> read, fallback |-> fb]

Respond(t, r) ==
    /\ responses' = Append(responses, r)
    /\ pc' = [pc EXCEPT ![t] = "idle"]

(* ------------------------------------------ circuit breaker: actions *)
\* createCircuitBreaker wraps httpRequest in an opossum CircuitBreaker; the
\* events below are the ones it subscribes to (open, halfOpen, close, timeout,
\* reject, fallback) and the counters the ones getStats reports. Time advances
\* in bucket intervals of the rolling window.
\* status.increment(property): the newest bucket counts the event
\* (IncrementLossy: the variant that writes 1 over the bucket's counter)
IncrementLossy(w, property) == [w EXCEPT ![1] = [@ EXCEPT ![property] = 1]]
Increment(w, property) == [w EXCEPT ![1] = [@ EXCEPT ![property] = @ + 1]]

\* breaker.stats: every counter summed over the buckets of the window
RECURSIVE SumOver(_, _)
SumOver(w, property) ==
    IF w = << >> THEN 0 ELSE Head(w)[property] + SumOver(Tail(w), property)
Stats(w) == [property \in DOMAIN EmptyBucket |-> SumOver(w, property)]

\* the check made when a call has failed: below the volume threshold the
\* breaker stays as it is (unless half open); it opens when the error rate
\* failures / fires * 100 exceeds errorThresholdPercentage, or when half open
\* (OpensOnFailureAbove: the variant that needs more than volumeThreshold
\* calls; OpensOnFailureThresholdOnly: the variant that applies the thresholds
\* to a half-open breaker too)
OpensOnFailureAbove(w, halfOpen) ==
    IF Stats(w).fires <= volumeThreshold /\ ~halfOpen THEN FALSE
    ELSE \/ Stats(w).failures * 100 > errorThresholdPercentage * Stats(w).fires
         \/ halfOpen
OpensOnFailureThresholdOnly(w, halfOpen) ==
    IF Stats(w).fires < volumeThreshold THEN FALSE
    ELSE Stats(w).failures * 100 > errorThresholdPercentage * Stats(w).fires
OpensOnFailure(w, halfOpen) ==
    IF Stats(w).fires < volumeThreshold /\ ~halfOpen THEN FALSE
    ELSE \/ Stats(w).failures * 100 > errorThresholdPercentage * Stats(w).fires
         \/ halfOpen

\* a call is rejected without being attempted while the breaker is not closed
\* and no probe is due
\* (RejectsHalfOpenOnly, RejectsOpenOnly, RejectsNotClosed: the variants that
\* look at one state only, or not at the pending probe; RejectsWhilePending:
\* the variant that admits one call at a time)
RejectsWhilePending(state, pending) ==
    (state # CLOSED /\ ~pending) \/ inflight # << >>
RejectsHalfOpenOnly(state, pending) == state = HALF_OPEN /\ ~pending
RejectsOpenOnly(state, pending) == state = OPEN
RejectsNotClosed(state, pending) == state # CLOSED
Rejects(state, pending) == state # CLOSED /\ ~pending

\* the response times of the products service that let a call complete before
\* its timeout (ms since the call was fired, in whole bucket intervals): within
\* the bucket interval in which the call was fired, or four intervals later,
\* when the window has rotated in between; a call that has not answered by
\* then runs into its timeout
Latencies == {0, 4000}
\* the instants at which execute calls arrive: every ArrivalGrid ms (any
\* number of calls at one instant)
ArrivalGrid == timeout
Answers(timer) == (timeout - timer) \in Latencies

Remove(seq, i) == SubSeq(seq, 1, i - 1) \o SubSeq(seq, i + 1, Len(seq))

\* what the promise returned by execute settles with: how the call ended
\* (success, failure, timeout, reject), what the caller got (the remote
\* result, the fallback value, or the error the promise rejected with) and
\* the ms between the call and its settling
Result(outcome, returned, latency) ==
    [outcome |-> outcome, returned |-> returned, latency |-> latency]

\* a call that ended with an error resolves to the fallback value when a
\* fallback function is configured, and rejects with the error otherwise
\* (OnErrorPropagate: the variant that always rejects)
OnErrorPropagate(fallbackFn, error) == error
OnError(fallbackFn, error) == IF fallbackFn THEN "fallback" ELSE error

\* the fallback counter moves only when a fallback function is configured
CountFallback(w) == IF hasFallback THEN Increment(w, "fallbacks") ELSE w

\* the timeout event of a call is counted
\* (RecordNothing: the variant that does not count it)
RecordNothing(w) == w
RecordTimeout(w) == Increment(w, "timeouts")

\* a failed or timed-out call: the failure is counted, the breaker may open
\* (open() starts the reset timer), then the fallback is used
Failed(w) ==
    LET w1 == Increment(w, "failures") IN
    /\ window' = CountFallback(w1)
    /\ IF OpensOnFailure(w1, cbState = HALF_OPEN) /\ cbState # OPEN
       THEN /\ cbState' = OPEN
            /\ pendingClose' = FALSE
            /\ resetTimer' = resetTimeout
            /\ timerArmed' = TRUE
            /\ openFor' = 0
       ELSE UNCHANGED <<cbState, pendingClose, resetTimer, timerArmed, openFor>>

\* who awaits an execute call: any caller, the handler running as task t,
\* or the lookup of the k-th item of an alerts request
Anyone == <<"any", 0>>
Handler(t) == <<"handler", t>>
Lookup(k) == <<"lookup", k>>

\* the execute call of caller who is pending
Pending(who) == \E i \in DOMAIN owner : owner[i] = who

\* the part of the breaker an execute call changes, as one value
Breaker ==
    [cbState |-> cbState, pendingClose |-> pendingClose, window |-> window,
     inflight |-> inflight, owner |-> owner, results |-> results, fired |-> fired]

\* execute(config) = breaker.fire(config): rejected at once while the breaker
\* is not closed and no probe is due, admitted otherwise
\* (ExecuteRejectFails: the variant that counts a rejected call as a failure
\* too)
ExecuteRejectFails(b, who) ==
    IF Rejects(b.cbState, b.pendingClose)
    THEN [b EXCEPT !.fired = @ + 1,
                   !.window = CountFallback(Increment(Increment(Increment(@, "fires"),
                                                                "rejects"), "failures")),
                   !.results = Append(@, Result("reject",
                                                OnError(hasFallback, "EOPENBREAKER"), 0))]
    ELSE [b EXCEPT !.fired = @ + 1,
                   !.window = Increment(@, "fires"),
                   !.pendingClose = FALSE,
                   !.inflight = Append(@, timeout),
                   !.owner = Append(@, who)]
Execute(b, who) ==
    IF Rejects(b.cbState, b.pendingClose)
    THEN [b EXCEPT !.fired = @ + 1,
                   !.window = CountFallback(Increment(Increment(@, "fires"), "rejects")),
                   !.results = Append(@, Result("reject",
                                                OnError(hasFallback, "EOPENBREAKER"), 0))]
    ELSE [b EXCEPT !.fired = @ + 1,
                   !.window = Increment(@, "fires"),
                   !.pendingClose = FALSE,
                   !.inflight = Append(@, timeout),
                   !.owner = Append(@, who)]

\* the execute calls made one after the other within one synchronous run
RECURSIVE ExecuteAll(_, _)
ExecuteAll(b, callers) ==
    IF callers = << >> THEN b
    ELSE ExecuteAll(Execute(b, Head(callers)), Tail(callers))

\* the callers make their execute calls in this step
Fires(callers) ==
    /\ fired + Len(callers) <= MaxCalls
    /\ phase = 0
    /\ LET b == ExecuteAll(Breaker, callers) IN
       /\ pendingClose' = b.pendingClose
       /\ window' = b.window
       /\ inflight' = b.inflight
       /\ owner' = b.owner
       /\ results' = b.results
       /\ fired' = b.fired
    /\ UNCHANGED <<cbState, resetTimer, timerArmed, hasFallback, openFor, phase, late>>

\* an execute call by a caller that is not modelled further
Fire ==
    /\ Fires(<<Anyone>>)
    /\ UNCHANGED <<stockVars, queryVars, registryVars, rabbitVars>>

\* on 'success': if (this.halfOpen) this.close()
\* (ClosesOnSuccessNotClosed: the variant that closes whenever the breaker is
\* not closed)
ClosesOnSuccessNotClosed(state) == state # CLOSED
ClosesOnSuccess(state) == state = HALF_OPEN

\* httpRequest resolves before the timeout: a success closes a half-open breaker
Succeeds(i) ==
    /\ i \in DOMAIN inflight
    /\ Answers(inflight[i])
    /\ inflight' = Remove(inflight, i)
    /\ owner' = Remove(owner, i)
    /\ window' = Increment(window, "successes")
    /\ results' = Append(results, Result("success", "remote", timeout - inflight[i]))
    /\ IF ClosesOnSuccess(cbState)
       THEN /\ cbState' = CLOSED
            /\ pendingClose' = FALSE
            /\ resetTimer' = 0
            /\ timerArmed' = FALSE
       ELSE UNCHANGED <<cbState, pendingClose, resetTimer, timerArmed>>
    /\ UNCHANGED <<fired, hasFallback, openFor, phase, late>>

\* httpRequest rejects before the timeout (axios error, also a 404 answer)
Fails(i) ==
    /\ i \in DOMAIN inflight
    /\ Answers(inflight[i])
    /\ inflight' = Remove(inflight, i)
    /\ owner' = Remove(owner, i)
    /\ Failed(window)
    /\ results' = Append(results, Result("failure", OnError(hasFallback, "error"),
                                         timeout - inflight[i]))
    /\ UNCHANGED <<fired, hasFallback, phase, late>>

\* the timeout timer of a pending call expires; httpRequest has not settled
\* and stays outstanding
TimesOut(i) ==
    /\ i \in DOMAIN inflight
    /\ inflight[i] = 0
    /\ inflight' = Remove(inflight, i)
    /\ owner' = Remove(owner, i)
    /\ Failed(RecordTimeout(window))
    /\ results' = Append(results, Result("timeout", OnError(hasFallback, "ETIMEDOUT"),
                                         timeout - inflight[i]))
    /\ late' = late + 1
    /\ UNCHANGED <<fired, hasFallback, phase>>

\* the three ways a pending call ends, for a caller that is not modelled
\* further
CallSucceeds(i) ==
    /\ Succeeds(i)
    /\ owner[i] = Anyone
    /\ UNCHANGED <<stockVars, queryVars, registryVars, rabbitVars>>

CallFails(i) ==
    /\ Fails(i)
    /\ owner[i] = Anyone
    /\ UNCHANGED <<stockVars, queryVars, registryVars, rabbitVars>>

CallTimesOut(i) ==
    /\ TimesOut(i)
    /\ owner[i] = Anyone
    /\ UNCHANGED <<stockVars, queryVars, registryVars, rabbitVars>>

\* the reset timer expires: the breaker goes HALF_OPEN, the next call is the
\* probe (the timer is set by open() and cleared by close(), so it expires
\* in OPEN)
ResetTimerFires ==
    /\ timerArmed
    /\ resetTimer = 0
    /\ cbState' = HALF_OPEN
    /\ pendingClose' = TRUE
    /\ timerArmed' = FALSE
    /\ UNCHANGED <<window, inflight, resetTimer, fired, hasFallback, results, openFor,
                   phase, late, owner, stockVars, queryVars, registryVars, rabbitVars>>

\* one bucket interval passes: the interval timer of the window fires and
\* the window drops its oldest bucket, whether or not calls are made, and
\* every running timer comes one interval closer (expired timers fire first)
Tick ==
    /\ \A i \in DOMAIN inflight : inflight[i] > 0
    /\ timerArmed => resetTimer > 0
    /\ window' = <<EmptyBucket>> \o SubSeq(window, 1, Len(window) - 1)
    /\ inflight' = [i \in DOMAIN inflight |-> inflight[i] - BucketInterval]
    /\ resetTimer' = IF timerArmed THEN resetTimer - BucketInterval ELSE resetTimer
    /\ openFor' = IF cbState = OPEN THEN openFor + BucketInterval ELSE openFor
    /\ phase' = (phase + BucketInterval) % ArrivalGrid
    /\ UNCHANGED <<cbState, pendingClose, timerArmed, fired, hasFallback, results,
                   late, owner, stockVars, queryVars, registryVars, rabbitVars>>

\* resetBreaker: () => breaker.close(). close() does nothing in CLOSED;
\* otherwise it clears the reset timer, sets CLOSED and drops the pending
\* probe; the window keeps its counts
\* (ResetBreakerKeepsTimer: the variant that leaves the reset timer running)
ResetBreakerKeepsTimer ==
    /\ cbState' = CLOSED
    /\ pendingClose' = FALSE
    /\ UNCHANGED <<window, inflight, resetTimer, timerArmed, fired, hasFallback, results,
                   openFor, phase, late, owner, stockVars, queryVars, registryVars,
                   rabbitVars>>
ResetBreaker ==
    /\ IF cbState # CLOSED
       THEN /\ cbState' = CLOSED
            /\ pendingClose' = FALSE
            /\ resetTimer' = 0
            /\ timerArmed' = FALSE
       ELSE UNCHANGED <<cbState, pendingClose, resetTimer, timerArmed>>
    /\ UNCHANGED <<window, inflight, fired, hasFallback, results, openFor, phase,
                   late, owner, stockVars, queryVars, registryVars, rabbitVars>>

NextBreaker ==
    \/ Fire
    \/ \E i \in 1..MaxCalls : CallSucceeds(i)
    \/ \E i \in 1..MaxCalls : CallFails(i)
    \/ \E i \in 1..MaxCalls : CallTimesOut(i)
    \/ ResetTimerFires
    \/ Tick

SpecBreaker == InitBreaker /\ [][NextBreaker]_vars

\* productsBreaker alone: the breaker the stock controller creates
SpecProducts == Init /\ [][NextBreaker]_vars

\* productsBreaker with resetBreaker called at any time (MaxResetCalls
\* execute calls in one behaviour)
MaxResetCalls == MaxCalls - 1
FireSome ==
    /\ fired < MaxResetCalls
    /\ Fire

\* productsBreaker with MaxResetCalls execute calls in one behaviour
NextSome ==
    \/ FireSome
    \/ \E i \in 1..MaxCalls : CallSucceeds(i)
    \/ \E i \in 1..MaxCalls : CallFails(i)
    \/ \E i \in 1..MaxCalls : CallTimesOut(i)
    \/ ResetTimerFires
    \/ Tick

NextReset ==
    \/ NextSome
    \/ ResetBreaker

SpecReset == Init /\ [][NextReset]_vars

\* the same with the timers running: the interval that rotates the window
\* fires every bucket interval, the timeout timer of each call and the reset
\* timer fire when they are due
SpecResetLive ==
    /\ SpecReset
    /\ WF_vars(Tick)
    /\ WF_vars(ResetTimerFires)
    /\ WF_vars(\E i \in 1..MaxCalls : CallTimesOut(i))

\* getState: breaker.opened is state === OPEN, breaker.halfOpen is
\* state === HALF_OPEN
GetState(state) ==
    IF state = OPEN THEN "OPEN"
    ELSE IF state = HALF_OPEN THEN "HALF_OPEN"
    ELSE "CLOSED"

\* productsBreaker with its timers running: the interval that rotates the
\* window, the timeout timer of each call and the reset timer all fire when
\* they are due (callers are not obliged to call)
SpecBreakerLive ==
    /\ Init /\ [][NextSome]_vars
    /\ WF_vars(Tick)
    /\ WF_vars(ResetTimerFires)
    /\ WF_vars(\E i \in 1..MaxCalls : CallTimesOut(i))

(* ----------------------------------------------------------- actions *)
\* a request passes validation and enters addStockEntry / removeStockExit;
\* the handler runs up to `await getProductInfo(...)`, which has made its
\* productsBreaker.execute call by then
\* (handlers are interchangeable: a request takes the lowest idle one)
Receive(t, type, p, q) ==
    /\ pc[t] = "idle"
    /\ \A u \in Tasks : u < t => pc[u] # "idle"
    /\ nextReq' = nextReq + 1
    /\ args' = [args EXCEPT ![t] = [req |-> nextReq + 1, type |-> type,
                                    productId |-> p, quantity |-> q]]
    /\ product' = [product EXCEPT ![t] = NullValue]
    /\ doc' = [doc EXCEPT ![t] = NoDoc]
    /\ seen' = [seen EXCEPT ![t] = NoDoc]
    /\ movement' = [movement EXCEPT ![t] = NoMovement]
    /\ fallbackUsed' = [fallbackUsed EXCEPT ![t] = FALSE]
    /\ pc' = [pc EXCEPT ![t] = "getProductInfo"]
    /\ Fires(<<Handler(t)>>)
    /\ UNCHANGED <<stockLevels, movements, clock, responses>>
    /\ UNCHANGED <<queryVars, registryVars, rabbitVars>>

\* what the promise of execute hands to getProductInfo: the fallback value,
\* or the error when no fallback function is configured
Returned(value) == IF value = "fallback" THEN FallbackValue ELSE Thrown(value)

\* the handler's continuation once execute has settled with data:
\* product = getProductInfo's return value; if (!product) return 404
\* (AfterLookupCreates: the variant that has run getOrCreate before it
\* answers 404)
AfterLookupCreates(t, data) ==
    LET prod == GetProductInfo(data) IN
    /\ product' = [product EXCEPT ![t] = prod]
    /\ fallbackUsed' = [fallbackUsed EXCEPT ![t] = (data = FallbackValue)]
    /\ IF ~Truthy(prod)
       THEN /\ Respond(t, NotFound(args[t], data = FallbackValue))
            /\ stockLevels' =
                 IF args[t].productId \in DOMAIN stockLevels THEN stockLevels
                 ELSE (args[t].productId :> [currentQuantity |-> 0,
                                             lastUpdated |-> clock])
                      @@ stockLevels
       ELSE /\ pc' = [pc EXCEPT ![t] = "findOne"]
            /\ UNCHANGED <<responses, stockLevels>>
AfterLookup(t, data) ==
    LET prod == GetProductInfo(data) IN
    /\ product' = [product EXCEPT ![t] = prod]
    /\ fallbackUsed' = [fallbackUsed EXCEPT ![t] = (data = FallbackValue)]
    /\ IF IsThrown(prod)
       THEN Respond(t, Unhandled(args[t], prod.thrown, data = FallbackValue))
       ELSE IF ~Truthy(prod)
       THEN Respond(t, NotFound(args[t], data = FallbackValue))
       ELSE /\ pc' = [pc EXCEPT ![t] = "findOne"]
            /\ UNCHANGED responses
    /\ UNCHANGED stockLevels

\* the execute call of the handler settles and the handler resumes: the
\* call was rejected by the breaker when it was made, or it is pending and
\* the remote answers with the product, fails, or runs into the timeout
ProductResolved(t) ==
    /\ pc[t] = "getProductInfo"
    /\ \/ /\ ~Pending(Handler(t))
          /\ AfterLookup(t, Returned(OnError(hasFallback, "EOPENBREAKER")))
          /\ UNCHANGED breakerVars
       \/ \E i \in DOMAIN inflight :
            /\ owner[i] = Handler(t)
            /\ \/ \E data \in ProductBodies(args[t].productId) :
                    Succeeds(i) /\ AfterLookup(t, data)
               \/ Fails(i) /\ AfterLookup(t, Returned(OnError(hasFallback, "error")))
               \/ TimesOut(i)
                    /\ AfterLookup(t, Returned(OnError(hasFallback, "ETIMEDOUT")))
    /\ UNCHANGED <<movements, clock, nextReq, args, doc, seen, movement>>
    /\ UNCHANGED <<queryVars, registryVars, rabbitVars>>

\* the handler's continuation once getOrCreate has returned document d: the
\* exit's stock check, then StockMovement.create(...) up to its await: the
\* movement is constructed, its timestamp read from the clock, and the
\* insert is sent
GotStockLevel(t, d) ==
    /\ doc' = [doc EXCEPT ![t] = d]
    /\ seen' = [seen EXCEPT ![t] = d]
    /\ IF args[t].type = EXIT /\ InsufficientStock(d, args[t].quantity)
       THEN /\ Respond(t, Insufficient(args[t], d, fallbackUsed[t]))
            /\ UNCHANGED <<movement, clock>>
       ELSE /\ movement' = [movement EXCEPT ![t] = NewMovement(args[t], clock + 1)]
            /\ clock' = clock + 1
            /\ pc' = [pc EXCEPT ![t] = "createMovement"]
            /\ UNCHANGED responses

\* getOrCreate: await this.findOne({ productId }) is answered: the document
\* found is returned to the handler, or none is found and this.create(...)
\* runs up to its await: the new document is constructed, its lastUpdated
\* read from the clock, and the insert is sent
FindOne(t) ==
    /\ pc[t] = "findOne"
    /\ IF args[t].productId \in DOMAIN stockLevels
       THEN GotStockLevel(t, stockLevels[args[t].productId])
       ELSE /\ pc' = [pc EXCEPT ![t] = "createLevel"]
            /\ doc' = [doc EXCEPT ![t] = NewLevel(clock + 1)]
            /\ clock' = clock + 1
            /\ UNCHANGED <<seen, movement, responses>>
    /\ UNCHANGED <<stockLevels, movements, nextReq, args, product, fallbackUsed>>
    /\ UNCHANGED <<breakerVars, queryVars, registryVars, rabbitVars>>

\* getOrCreate: the insert of await this.create({ productId,
\* currentQuantity: 0 }) is answered: the constructed document is stored and
\* returned to the handler; productId is a unique index, a second insert is
\* a duplicate-key error, which leaves the handler through next(err)
CreateLevel(t) ==
    /\ pc[t] = "createLevel"
    /\ IF args[t].productId \in DOMAIN stockLevels
       THEN /\ Respond(t, ServerError(args[t], DuplicateKey, NoDoc, fallbackUsed[t]))
            /\ UNCHANGED <<stockLevels, clock, doc, seen, movement>>
       ELSE /\ stockLevels' = (args[t].productId :> doc[t]) @@ stockLevels
            /\ GotStockLevel(t, doc[t])
    /\ UNCHANGED <<movements, nextReq, args, product, fallbackUsed>>
    /\ UNCHANGED <<breakerVars, queryVars, registryVars, rabbitVars>>

\* the insert of await StockMovement.create(...) is answered: the constructed
\* movement is stored; then updateQuantity up to its await save()
CreateMovement(t) ==
    /\ pc[t] = "createMovement"
    /\ clock' = clock + 1
    /\ movements' = Insert(movements, movement[t])
    /\ LET d == UpdateQuantity(doc[t], Delta(args[t]), clock + 1) IN
       /\ doc' = [doc EXCEPT ![t] = d]
       /\ IF UpdateQuantityThrows(d)
          THEN Respond(t, ServerError(args[t], "Insufficient stock", seen[t],
                                      fallbackUsed[t]))
          ELSE /\ pc' = [pc EXCEPT ![t] = "save"]
               /\ UNCHANGED responses
    /\ UNCHANGED <<stockLevels, nextReq, args, product, seen, movement, fallbackUsed>>
    /\ UNCHANGED <<breakerVars, queryVars, registryVars, rabbitVars>>

\* updateQuantity: return await this.save(); then res.status(201)
SaveLevel(t) ==
    /\ pc[t] = "save"
    /\ stockLevels' = Save(stockLevels, args[t].productId, doc[t], Delta(args[t]))
    /\ Respond(t, Recorded(args[t], doc[t], product[t], seen[t], fallbackUsed[t]))
    /\ UNCHANGED <<movements, clock, nextReq, args, product, doc, seen, movement,
                   fallbackUsed>>
    /\ UNCHANGED <<breakerVars, queryVars, registryVars, rabbitVars>>

\* updateQuantity: await this.save() rejects (a storage error); asyncHandler
\* passes the error to next(err)
SaveFails(t) ==
    /\ pc[t] = "save"
    /\ Respond(t, ServerError(args[t], StorageError, seen[t], fallbackUsed[t]))
    /\ UNCHANGED <<stockLevels, movements, clock, nextReq, args, product, doc, seen,
                   movement, fallbackUsed>>
    /\ UNCHANGED <<breakerVars, queryVars, registryVars, rabbitVars>>

\* (MaxRequests requests in one behaviour)
ReceiveSome(t, type, p, q) ==
    /\ nextReq < MaxRequests
    /\ Receive(t, type, p, q)

Next ==
    \/ \E t \in Tasks, type \in MOVEMENT_TYPES, p \in Products, q \in Quantities :
         ReceiveSome(t, type, p, q)
    \/ \E t \in Tasks : ProductResolved(t)
    \/ \E t \in Tasks : FindOne(t)
    \/ \E t \in Tasks : CreateLevel(t)
    \/ \E t \in Tasks : CreateMovement(t)
    \/ \E t \in Tasks : SaveLevel(t)
    \/ \E t \in Tasks : SaveFails(t)

Spec == Init /\ [][Next]_vars

\* the same handlers with callers that send a request only once the previous
\* one was answered (a restriction on the callers: the handlers have no
\* such guard, see Receive)
Alone == \A u \in Tasks : pc[u] = "idle"
ReceiveAlone(t, type, p, q) ==
    /\ nextReq < MaxRequests
    /\ Alone
    /\ Receive(t, type, p, q)

NextSequential ==
    \/ \E t \in Tasks, type \in MOVEMENT_TYPES, p \in Products, q \in Quantities :
         ReceiveAlone(t, type, p, q)
    \/ \E t \in Tasks : ProductResolved(t)
    \/ \E t \in Tasks : FindOne(t)
    \/ \E t \in Tasks : CreateLevel(t)
    \/ \E t \in Tasks : CreateMovement(t)
    \/ \E t \in Tasks : SaveLevel(t)
    \/ \E t \in Tasks : SaveFails(t)

SpecSequential == Init /\ [][NextSequential]_vars

\* the same handlers on one product, one request in flight at a time, with
\* the passing of time: a lookup that is not answered times out, and the
\* reset timer of an opened breaker expires (MaxTimedRequests requests in
\* one behaviour, so that a request can meet the breaker opened by the
\* volumeThreshold requests before it)
MaxTimedRequests == MaxCalls - 1
ReceiveTimed(t, type, q) ==
    /\ nextReq < MaxTimedRequests
    /\ Alone
    /\ Receive(t, type, "X", q)

NextTimed ==
    \/ \E t \in Tasks, type \in MOVEMENT_TYPES : ReceiveTimed(t, type, 4)
    \/ \E t \in Tasks : ProductResolved(t)
    \/ \E t \in Tasks : FindOne(t)
    \/ \E t \in Tasks : CreateLevel(t)
    \/ \E t \in Tasks : CreateMovement(t)
    \/ \E t \in Tasks : SaveLevel(t)
    \/ \E t \in Tasks : SaveFails(t)
    \/ ResetTimerFires
    \/ Tick

SpecTimed == Init /\ [][NextTimed]_vars

\* the same handlers on two products, where a request is received while
\* another is in flight only if the two are on different products
\* (MaxItemRequests requests in one behaviour)
MaxItemRequests == MaxRequests - 1
ReceiveOtherItem(t, type, p, q) ==
    /\ nextReq < MaxItemRequests
    /\ \A u \in Tasks : pc[u] # "idle" => args[u].productId # p
    /\ Receive(t, type, p, q)

NextItems ==
    \/ \E t \in Tasks, type \in MOVEMENT_TYPES, p \in {"X", "Y"}, q \in Quantities :
         ReceiveOtherItem(t, type, p, q)
    \/ \E t \in Tasks : ProductResolved(t)
    \/ \E t \in Tasks : FindOne(t)
    \/ \E t \in Tasks : CreateLevel(t)
    \/ \E t \in Tasks : CreateMovement(t)
    \/ \E t \in Tasks : SaveLevel(t)
    \/ \E t \in Tasks : SaveFails(t)

SpecItems == InitStocked /\ [][NextItems]_vars

(* ------------------------------------------------------------ queries *)
\* the productId values of the requests when the queries are examined
ProductsListed == {"X", "Y"}

\* entries and exits received in one behaviour when the queries are examined
MaxListed == MaxRequests - 1

\* req.query.threshold as received: absent, "0" or "4"
QueryThresholds == {"", "0", "4"}
\* parseInt of it (NA stands for NaN)
ParseInt(str) == IF str = "0" THEN 0 ELSE IF str = "4" THEN 4 ELSE NA
\* a || b on numbers: NaN and 0 are falsy
OrElse(n, default) == IF n = NA \/ n = 0 THEN default ELSE n
\* parseInt(req.query.threshold) || parseInt(env.DEFAULT_LOW_STOCK_THRESHOLD) || 10
AlertThreshold(str) == OrElse(ParseInt(str), DEFAULT_LOW_STOCK_THRESHOLD)

\* (LowItemsBelow: the variant that matches with $lt)
LowItemsBelow(levels, threshold) ==
    {p \in DOMAIN levels : levels[p].currentQuantity < threshold}
\* the documents matched by find({ currentQuantity: { $lte: threshold } })
LowItems(levels, threshold) ==
    {p \in DOMAIN levels : levels[p].currentQuantity <= threshold}

\* getLowStock: the matched documents sorted by currentQuantity ascending
\* (documents with equal quantities in either order)
GetLowStock(levels, threshold) ==
    LET low == LowItems(levels, threshold) IN
    { [i \in DOMAIN order |->
          [productId |-> order[i],
           currentQuantity |-> levels[order[i]].currentQuantity,
           lastUpdated |-> levels[order[i]].lastUpdated]] :
      order \in { o \in [1..Cardinality(low) -> low] :
                    /\ \A i, j \in DOMAIN o : i # j => o[i] # o[j]
                    /\ \A i, j \in DOMAIN o :
                         i < j => levels[o[i]].currentQuantity
                                    <= levels[o[j]].currentQuantity } }

\* the mapper of getLowStockAlerts for one item, whose lookup resolved to
\* data: it fulfils with the alert, and Promise.allSettled records a
\* rejection if the lookup throws
\* (unresolved is not part of the body: it records that the lookup ended in
\* the breaker's fallback value)
Settle(item, data, threshold) ==
    LET prod == GetProductInfo(data) IN
    IF IsThrown(prod) THEN [status |-> "rejected", reason |-> prod.thrown] ELSE
    [status |-> "fulfilled",
     value |-> [productId |-> item.productId,
                productName |-> IF Truthy(prod) THEN prod.name ELSE "Unknown",
                sku |-> IF Truthy(prod) THEN prod.sku ELSE "N/A",
                currentQuantity |-> item.currentQuantity,
                threshold |-> IF Truthy(prod) THEN OrElse(prod.lowStockThreshold, threshold)
                              ELSE threshold,
                lastUpdated |-> item.lastUpdated,
                productAvailable |-> ~IsFallback(prod),
                unresolved |-> (data = FallbackValue)]]

IsFulfilled(r) == r.status = "fulfilled"

\* res.json({ success, count, threshold, alerts, warning }); failedCount is
\* the number in the warning, which is present when it is > 0
AlertsResponse(threshold, settled) ==
    LET fulfilled == SelectSeq(settled, IsFulfilled)
        failedCount == Len(settled) - Len(fulfilled)
    IN [success |-> TRUE,
        count |-> Len(fulfilled),
        threshold |-> threshold,
        alerts |-> [i \in DOMAIN fulfilled |-> fulfilled[i].value],
        failedCount |-> failedCount,
        warning |-> failedCount > 0]

\* the mapper's promise for an item whose lookup has not settled yet
PendingLookup == [status |-> "pending"]

\* what the steps of a read handler that only read leave as it is
ReadsNothingElse == UNCHANGED <<stockVars, registryVars, rabbitVars>>

\* GET /api/stock/alerts is received: the threshold is computed and the
\* handler awaits StockLevel.getLowStock(threshold)
\* (requested is not a local of the handler: it records req.query.threshold)
GetLowStockAlerts(str) ==
    /\ reader.pc = "idle"
    /\ reader' = [pc |-> "getLowStock", requested |-> str,
                  threshold |-> AlertThreshold(str)]
    /\ UNCHANGED <<alerts, summary, level, listed, breakerVars>>
    /\ ReadsNothingElse

\* getLowStock is answered: lowStockItems.map runs the mapper for every item
\* up to its await, so each item's lookup has made its execute call, and the
\* handler awaits Promise.allSettled; with no item, allSettled([]) resolves
\* and the response is sent
LowStockFound ==
    /\ reader.pc = "getLowStock"
    /\ \E lowStockItems \in GetLowStock(stockLevels, reader.threshold) :
         /\ Fires([k \in DOMAIN lowStockItems |-> Lookup(k)])
         /\ IF lowStockItems = << >>
            THEN /\ alerts' = AlertsResponse(reader.threshold, << >>)
                 /\ reader' = IdleReader
            ELSE /\ reader' = [pc |-> "lookups", requested |-> reader.requested,
                               threshold |-> reader.threshold,
                               items |-> lowStockItems,
                               settled |-> [k \in DOMAIN lowStockItems |-> PendingLookup]]
                 /\ UNCHANGED alerts
    /\ UNCHANGED <<summary, level, listed>>
    /\ ReadsNothingElse

\* the mapper of item k continues with data; when it was the last one
\* pending, Promise.allSettled resolves and the response is sent
LookupSettled(k, data) ==
    LET settled == [reader.settled EXCEPT
                        ![k] = Settle(reader.items[k], data, reader.threshold)] IN
    IF \A j \in DOMAIN settled : settled[j] # PendingLookup
    THEN /\ alerts' = AlertsResponse(reader.threshold, settled)
         /\ reader' = IdleReader
    ELSE /\ reader' = [reader EXCEPT !.settled = settled]
         /\ UNCHANGED alerts

\* the lookup of item k settles: its execute call was rejected, or its
\* remote call succeeds, fails or times out
LookupResolved(k) ==
    /\ reader.pc = "lookups"
    /\ k \in DOMAIN reader.items
    /\ reader.settled[k] = PendingLookup
    /\ \/ /\ ~Pending(Lookup(k))
          /\ LookupSettled(k, Returned(OnError(hasFallback, "EOPENBREAKER")))
          /\ UNCHANGED breakerVars
       \/ \E i \in DOMAIN inflight :
            /\ owner[i] = Lookup(k)
            /\ \/ \E data \in ProductBodies(reader.items[k].productId) :
                    Succeeds(i) /\ LookupSettled(k, data)
               \/ Fails(i) /\ LookupSettled(k, Returned(OnError(hasFallback, "error")))
               \/ TimesOut(i)
                    /\ LookupSettled(k, Returned(OnError(hasFallback, "ETIMEDOUT")))
    /\ UNCHANGED <<summary, level, listed>>
    /\ ReadsNothingElse

\* 24 * 60 * 60 * 1000 ms
Day == 24 * 60 * 60 * 1000

RECURSIVE SumQuantities(_, _)
SumQuantities(levels, S) ==
    IF S = {} THEN 0
    ELSE LET p == CHOOSE x \in S : TRUE IN
         levels[p].currentQuantity + SumQuantities(levels, S \ {p})

\* the four queries of getStockSummary, and each one's answer on the
\* collections as they are when it is answered
SummaryParts == {"totalProducts", "totalQuantity", "lowStockCount",
                 "recentMovementsCount"}
SummaryPart(part, levels, ledger, yesterday) ==
    CASE part = "totalProducts" -> Cardinality(DOMAIN levels)
      [] part = "totalQuantity" -> SumQuantities(levels, DOMAIN levels)
      [] part = "lowStockCount" ->
            Cardinality(LowItems(levels, DEFAULT_LOW_STOCK_THRESHOLD))
      [] part = "recentMovementsCount" ->
            Cardinality({i \in DOMAIN ledger : ledger[i].timestamp >= yesterday})

\* res.json({ success, summary: { ... } })
\* (breaker is not part of the body: it records the state the breaker was in)
StockSummary(answered) ==
    [success |-> TRUE,
     totalProducts |-> answered["totalProducts"],
     totalQuantity |-> answered["totalQuantity"],
     lowStockCount |-> answered["lowStockCount"],
     recentMovementsCount |-> answered["recentMovementsCount"],
     breaker |-> cbState]

\* GET /api/stock/summary is received: yesterday is computed, the four
\* queries are sent and the handler awaits Promise.all
\* (GetStockSummaryLookup: the variant that makes an execute call first)
GetStockSummaryLookup ==
    /\ reader.pc = "idle"
    /\ reader' = [pc |-> "summary", yesterday |-> clock - Day,
                  answered |-> [part \in SummaryParts |-> NA]]
    /\ window' = Increment(window, "fires")
    /\ UNCHANGED <<alerts, summary, level, listed, cbState, pendingClose, inflight,
                   resetTimer, timerArmed, fired,
                   hasFallback, results, openFor, phase, late, owner>>
    /\ ReadsNothingElse
GetStockSummary ==
    /\ reader.pc = "idle"
    /\ reader' = [pc |-> "summary", yesterday |-> clock - Day,
                  answered |-> [part \in SummaryParts |-> NA]]
    /\ UNCHANGED <<alerts, summary, level, listed, breakerVars>>
    /\ ReadsNothingElse

\* one of the four queries is answered; when it was the last one pending,
\* Promise.all resolves and the response is sent
SummaryAnswered(part) ==
    /\ reader.pc = "summary"
    /\ reader.answered[part] = NA
    /\ LET answered == [reader.answered EXCEPT
                           ![part] = SummaryPart(part, stockLevels, movements,
                                                 reader.yesterday)] IN
       IF \A q \in SummaryParts : answered[q] # NA
       THEN /\ summary' = StockSummary(answered)
            /\ reader' = IdleReader
       ELSE /\ reader' = [reader EXCEPT !.answered = answered]
            /\ UNCHANGED summary
    /\ UNCHANGED <<alerts, level, listed, breakerVars>>
    /\ ReadsNothingElse

\* the limit getProductStockLevel passes to getByProduct, and the limits of
\* the calls of getByProduct that are examined
RecentLimit == 10
Limits == {1, 2, RecentLimit}

\* the smaller of two numbers
Min(a, b) == IF a < b THEN a ELSE b

\* the positions of the documents matched by find({ productId })
Matching(ledger, p) == {i \in DOMAIN ledger : ledger[i].productId = p}

\* (GetByProductOldest: the variant that sorts by timestamp ascending)
GetByProductOldest(ledger, p, limit) ==
    LET found == Matching(ledger, p) IN
    { [i \in 1..Min(limit, Cardinality(found)) |-> ledger[order[i]]] :
      order \in { o \in [1..Cardinality(found) -> found] :
                    /\ \A i, j \in DOMAIN o : i # j => o[i] # o[j]
                    /\ \A i, j \in DOMAIN o :
                         i < j => ledger[o[i]].timestamp <= ledger[o[j]].timestamp } }

\* getByProduct: find({ productId }).sort({ timestamp: -1 }).limit(limit),
\* for limit >= 1 (documents with equal timestamps in either order)
GetByProduct(ledger, p, limit) ==
    LET found == Matching(ledger, p) IN
    { [i \in 1..Min(limit, Cardinality(found)) |-> ledger[order[i]]] :
      order \in { o \in [1..Cardinality(found) -> found] :
                    /\ \A i, j \in DOMAIN o : i # j => o[i] # o[j]
                    /\ \A i, j \in DOMAIN o :
                         i < j => ledger[o[i]].timestamp >= ledger[o[j]].timestamp } }

\* GET /api/stock/product/:id is received: the handler awaits the findOne of
\* StockLevel.getOrCreate(id)
GetProductStockLevel(p) ==
    /\ reader.pc = "idle"
    /\ reader' = [pc |-> "findOne", productId |-> p]
    /\ UNCHANGED <<alerts, summary, level, listed, breakerVars>>
    /\ ReadsNothingElse

\* res.json({ success, data: { productId, currentQuantity, lastUpdated,
\* recentMovements } }), or the response of errorHandler for the error the
\* handler left with
LevelResponse(p, d, recentMovements) ==
    [success |-> TRUE, status |-> 200, productId |-> p,
     currentQuantity |-> d.currentQuantity, lastUpdated |-> d.lastUpdated,
     recentMovements |-> recentMovements]
LevelError(p, error) ==
    [success |-> FALSE, status |-> ErrorHandler(error).status, productId |-> p,
     currentQuantity |-> NA, lastUpdated |-> NA, recentMovements |-> << >>]

\* getOrCreate's findOne is answered: the document found is returned and the
\* handler awaits getByProduct(id, 10), or none is found and this.create(...)
\* runs up to its await: the new document is constructed, its lastUpdated
\* read from the clock, and the insert is sent
LevelFindOne ==
    /\ reader.pc = "findOne"
    /\ IF reader.productId \in DOMAIN stockLevels
       THEN /\ reader' = [pc |-> "getByProduct", productId |-> reader.productId,
                          stockLevel |-> stockLevels[reader.productId]]
            /\ UNCHANGED clock
       ELSE /\ reader' = [pc |-> "createLevel", productId |-> reader.productId,
                          stockLevel |-> NewLevel(clock + 1)]
            /\ clock' = clock + 1
    /\ UNCHANGED <<stockLevels, movements, nextReq, pc, args, product, doc, seen,
                   movement, fallbackUsed, responses>>
    /\ UNCHANGED <<alerts, summary, level, listed, breakerVars, registryVars,
                   rabbitVars>>

\* the insert of getOrCreate's create is answered: the constructed document
\* is stored and returned, or the insert fails with the duplicate key error
\* of the unique index when another request created the item's document
\* since the findOne, and the handler leaves through next(error)
LevelCreate ==
    /\ reader.pc = "createLevel"
    /\ IF reader.productId \in DOMAIN stockLevels
       THEN /\ level' = LevelError(reader.productId, DuplicateKey)
            /\ reader' = IdleReader
            /\ UNCHANGED stockLevels
       ELSE /\ stockLevels' = (reader.productId :> reader.stockLevel) @@ stockLevels
            /\ reader' = [pc |-> "getByProduct", productId |-> reader.productId,
                          stockLevel |-> reader.stockLevel]
            /\ UNCHANGED level
    /\ UNCHANGED <<movements, clock, nextReq, pc, args, product, doc, seen, movement,
                   fallbackUsed, responses>>
    /\ UNCHANGED <<alerts, summary, listed, breakerVars, registryVars, rabbitVars>>

\* getByProduct(id, 10) is answered and the response is sent
LevelListed ==
    /\ reader.pc = "getByProduct"
    /\ \E recentMovements \in GetByProduct(movements, reader.productId, RecentLimit) :
         level' = LevelResponse(reader.productId, reader.stockLevel, recentMovements)
    /\ reader' = IdleReader
    /\ UNCHANGED <<alerts, summary, listed, breakerVars>>
    /\ ReadsNothingElse

\* StockMovement.getByProduct(productId, limit)
\* (productId and limit are not part of the result: they record the call)
CallGetByProduct(p, limit) ==
    /\ \E found \in GetByProduct(movements, p, limit) :
         listed' = [productId |-> p, limit |-> limit, movements |-> found]
    /\ UNCHANGED <<alerts, summary, level, reader, stockVars, breakerVars, registryVars,
                   rabbitVars>>

\* the handlers with one request in flight at a time, on two products, and
\* one alerts request at any point in between
ReceiveListed(t, type, p, q) ==
    /\ nextReq < MaxListed
    /\ ReceiveAlone(t, type, p, q)

GetLowStockAlertsOnce(str) ==
    /\ alerts = NullValue /\ summary = NullValue
    /\ GetLowStockAlerts(str)

GetStockSummaryOnce ==
    /\ alerts = NullValue /\ summary = NullValue
    /\ GetStockSummary

\* the positions of the items of lowStockItems
LookupSlots == 1..Cardinality(ProductsListed)

NextQueries ==
    \/ \E t \in Tasks, type \in MOVEMENT_TYPES, p \in ProductsListed, q \in Quantities :
         ReceiveListed(t, type, p, q)
    \/ \E t \in Tasks : ProductResolved(t)
    \/ \E t \in Tasks : FindOne(t)
    \/ \E t \in Tasks : CreateLevel(t)
    \/ \E t \in Tasks : CreateMovement(t)
    \/ \E t \in Tasks : SaveLevel(t)
    \/ \E t \in Tasks : SaveFails(t)
    \/ \E str \in QueryThresholds : GetLowStockAlertsOnce(str)
    \/ LowStockFound
    \/ \E k \in LookupSlots : LookupResolved(k)

SpecQueries == Init /\ [][NextQueries]_vars

\* the handlers and the alerts with the passing of time: requests on one
\* product, one at a time, enough of them to open the breaker, and one
\* alerts request at any point in between; a lookup that is not answered
\* times out, and the reset timer of an opened breaker expires
GetLowStockAlertsDefault ==
    /\ alerts = NullValue
    /\ GetLowStockAlerts("")

NextDegraded ==
    \/ \E t \in Tasks, type \in MOVEMENT_TYPES : ReceiveAlone(t, type, "X", 4)
    \/ \E t \in Tasks : ProductResolved(t)
    \/ \E t \in Tasks : FindOne(t)
    \/ \E t \in Tasks : CreateLevel(t)
    \/ \E t \in Tasks : CreateMovement(t)
    \/ \E t \in Tasks : SaveLevel(t)
    \/ \E t \in Tasks : SaveFails(t)
    \/ GetLowStockAlertsDefault
    \/ LowStockFound
    \/ \E k \in LookupSlots : LookupResolved(k)
    \/ ResetTimerFires
    \/ Tick

SpecDegraded == Init /\ [][NextDegraded]_vars

\* the handlers with one request in flight at a time, on two products of a
\* new or a stocked database, and one read of the ledger at any point in
\* between
GetProductStockLevelOnce(p) ==
    /\ level = NullValue /\ listed = NullValue
    /\ GetProductStockLevel(p)

GetByProductOnce(p, limit) ==
    /\ level = NullValue /\ listed = NullValue
    /\ CallGetByProduct(p, limit)

NextLedger ==
    \/ \E t \in Tasks, type \in MOVEMENT_TYPES, p \in ProductsListed :
         ReceiveListed(t, type, p, 4)
    \/ \E t \in Tasks : ProductResolved(t)
    \/ \E t \in Tasks : FindOne(t)
    \/ \E t \in Tasks : CreateLevel(t)
    \/ \E t \in Tasks : CreateMovement(t)
    \/ \E t \in Tasks : SaveLevel(t)
    \/ \E t \in Tasks : SaveFails(t)
    \/ \E p \in ProductsListed : GetProductStockLevelOnce(p)
    \/ LevelFindOne
    \/ LevelCreate
    \/ LevelListed
    \/ \E p \in ProductsListed, limit \in Limits : GetByProductOnce(p, limit)

SpecLedger == InitStocked /\ [][NextLedger]_vars

(* ------------------------------------------------------- the registry *)
\* getCircuitBreaker calls made in one behaviour
MaxGets == 3

\* circuitBreaker.js loaded and no breaker requested yet; the breaker and
\* the collections are those of a service that has not started
InitRegistry ==
    /\ registry = << >>
    /\ created = 0
    /\ handed = << >>
    /\ report = NullValue
    /\ peerState = CLOSED
    /\ health = NullValue
    /\ Disconnected
    /\ stockLevels = EmptyDb.levels /\ movements = EmptyDb.ledger /\ clock = EmptyDb.now
    /\ nextReq = 0
    /\ pc = [t \in Tasks |-> "idle"]
    /\ args = [t \in Tasks |-> NoArgs]
    /\ product = [t \in Tasks |-> NullValue]
    /\ doc = [t \in Tasks |-> NoDoc]
    /\ seen = [t \in Tasks |-> NoDoc]
    /\ movement = [t \in Tasks |-> NoMovement]
    /\ fallbackUsed = [t \in Tasks |-> FALSE]
    /\ responses = << >>
    /\ cbState = CLOSED /\ pendingClose = FALSE
    /\ window = [b \in 1..rollingCountBuckets |-> EmptyBucket]
    /\ inflight = << >> /\ resetTimer = 0 /\ timerArmed = FALSE /\ fired = 0
    /\ late = 0 /\ owner = << >>
    /\ hasFallback = TRUE /\ results = << >> /\ openFor = 0 /\ phase = 0
    /\ alerts = NullValue /\ summary = NullValue
    /\ level = NullValue /\ listed = NullValue /\ reader = IdleReader

\* getCircuitBreaker(serviceName, options, fallbackFn): synchronous, so it
\* runs to its return without another caller in between
GetCircuitBreaker(serviceName, options, fallbackFn) ==
    /\ Len(handed) < MaxGets
    /\ LET isNew == ~Has(registry, serviceName)
           reg == IF isNew
                  THEN (serviceName :> CreateCircuitBreaker(created + 1, serviceName,
                                                            options, fallbackFn))
                       @@ registry
                  ELSE registry
       IN /\ registry' = reg
          /\ created' = IF isNew THEN created + 1 ELSE created
          /\ handed' = Append(handed, Handed(serviceName, options, fallbackFn,
                                             reg[serviceName]))
    /\ UNCHANGED <<report, peerState, health, stockVars, breakerVars, queryVars,
                   rabbitVars>>

\* the opossum state of the breaker registered under name n: the breaker of
\* products-service is the one whose calls are modelled
StateOf(n) == IF n = "products-service" THEN cbState ELSE peerState

\* getStats(): name, state and enabled (the six counters are left out)
\* state: breaker.opened ? "OPEN" : breaker.halfOpen ? "HALF_OPEN" : "CLOSED"
\* enabled: !breaker.opened
GetStats(serviceName, state) ==
    [name |-> serviceName,
     state |-> IF state = OPEN THEN "OPEN"
               ELSE IF state = HALF_OPEN THEN "HALF_OPEN"
               ELSE "CLOSED",
     enabled |-> ~(state = OPEN)]

\* for (const [name, breaker] of registry.entries()) stats[name] = breaker.getStats()
AllStats == [n \in DOMAIN registry |-> GetStats(registry[n].name, StateOf(n))]

\* getAllCircuitBreakerStats(): one getStats() per entry of the registry
GetAllCircuitBreakerStats ==
    /\ report' = AllStats
    /\ UNCHANGED <<registry, created, handed, peerState, health,
                   stockVars, breakerVars, queryVars, rabbitVars>>

NextRegistry ==
    \/ \E serviceName \in ServiceNames, options \in OptionChoices, fallbackFn \in BOOLEAN :
         GetCircuitBreaker(serviceName, options, fallbackFn)
    \/ GetAllCircuitBreakerStats

SpecRegistry == InitRegistry /\ [][NextRegistry]_vars

(* ------------------------------------------------- the RabbitMQ client *)
\* this.maxReconnectAttempts
maxReconnectAttempts == 10
\* connect() calls made from outside the client in one behaviour
MaxConnects == 2
\* close() calls made from outside the client in one behaviour
MaxCloses == 1

\* if (this.reconnectAttempts >= this.maxReconnectAttempts) return
AtBound(attempts) == attempts >= maxReconnectAttempts

\* reconnectAttempts after n calls of handleReconnect() in a row: each does
\* nothing at the bound and reconnectAttempts++ otherwise
RECURSIVE AttemptsAfter(_, _)
AttemptsAfter(attempts, n) ==
    IF n = 0 THEN attempts
    ELSE AttemptsAfter(IF AtBound(attempts) THEN attempts ELSE attempts + 1, n - 1)

\* handleReconnect(), called n times in a row: nothing at the bound;
\* otherwise reconnectAttempts++ and setTimeout(connect, reconnectInterval).
\* It has no await, so it runs to its end within the step that calls it.
HandleReconnect(n) ==
    /\ reconnectAttempts' = AttemptsAfter(reconnectAttempts, n)
    /\ timers' = timers + (AttemptsAfter(reconnectAttempts, n) - reconnectAttempts)

\* a connection amqp.connect has just resolved with: open, no listener of
\* the client on it, its createChannel() not answered yet, no channel of the
\* client on it
NewConnection ==
    [handlers |-> 0, opening |-> TRUE, channel |-> FALSE, closing |-> FALSE]

\* the open connections the client can still hear from or act on, oldest
\* first: this.connection when it is open (the newest one, cur), those with
\* listeners of the client, those whose createChannel() is pending, the one
\* this.channel is on and the one a close() call is closing. An open
\* connection that is none of these never changes the client again:
\* listeners are only registered on this.connection, and this.connection is
\* only ever replaced by a newer one.
Heard(conns, cur) ==
    IF conns = << >> THEN << >>
    ELSE LET older == SelectSeq(SubSeq(conns, 1, Len(conns) - 1),
                                LAMBDA c : c.handlers > 0 \/ c.opening
                                           \/ c.channel \/ c.closing)
             newest == conns[Len(conns)]
         IN IF cur \/ newest.handlers > 0 \/ newest.opening
               \/ newest.channel \/ newest.closing
            THEN Append(older, newest) ELSE older

\* connect() calls suspended at `await this.connection.createChannel()`
AwaitingChannel ==
    orphaned + Cardinality({i \in DOMAIN connections : connections[i].opening})

\* connect() is called from outside (a service at start-up, or
\* createExchange, createQueue, publish, consume when there is no channel):
\* it runs up to `await amqp.connect(this.url)`
Connect ==
    /\ connects < MaxConnects
    /\ connects' = connects + 1
    /\ connecting' = connecting + 1
    /\ UNCHANGED <<reconnectAttempts, isConnected, connection, connections, orphaned,
                   timers, failedRun, channel, closing, closes>>
    /\ UNCHANGED <<stockVars, breakerVars, queryVars, registryVars>>

\* amqp.connect rejects: catch, handleReconnect, throw
ConnectFails ==
    /\ connecting > 0
    /\ connecting' = connecting - 1
    /\ failedRun' = failedRun + 1
    /\ HandleReconnect(1)
    /\ UNCHANGED <<isConnected, connection, connections, orphaned, connects,
                   channel, closing, closes>>
    /\ UNCHANGED <<stockVars, breakerVars, queryVars, registryVars>>

\* amqp.connect resolves with a new connection: this.connection = it, and
\* the call runs up to `await this.connection.createChannel()`
ConnectionOpens ==
    /\ connecting > 0
    /\ connecting' = connecting - 1
    /\ connection' = "open"
    /\ connections' = Append(Heard(connections, FALSE), NewConnection)
    /\ UNCHANGED <<reconnectAttempts, isConnected, orphaned, timers, connects,
                   failedRun, channel, closing, closes>>
    /\ UNCHANGED <<stockVars, breakerVars, queryVars, registryVars>>

\* createChannel rejects, on an open connection or on one that has closed
\* since the call was made: catch, handleReconnect, throw
ChannelFails ==
    /\ \/ /\ orphaned > 0
          /\ orphaned' = orphaned - 1
          /\ UNCHANGED connections
       \/ \E i \in DOMAIN connections :
            /\ connections[i].opening
            /\ connections' = Heard([connections EXCEPT ![i].opening = FALSE],
                                    connection = "open")
            /\ UNCHANGED orphaned
    /\ failedRun' = failedRun + 1
    /\ HandleReconnect(1)
    /\ UNCHANGED <<isConnected, connection, connecting, connects, channel, closing,
                   closes>>
    /\ UNCHANGED <<stockVars, breakerVars, queryVars, registryVars>>

\* createChannel resolves on the open connection i, and the call runs to its
\* end: this.channel = the new channel (a close() call that awaits the close
\* of the channel replaced goes on awaiting it), isConnected = true,
\* reconnectAttempts = 0, and the 'error' and 'close' listeners are
\* registered on this.connection, which is the newest connection, open or
\* closed, whichever call made it
ConnectSucceeds(i) ==
    /\ connections[i].opening
    /\ LET answered == [j \in DOMAIN connections |->
                           [connections[j] EXCEPT
                               !.opening = IF j = i THEN FALSE ELSE @,
                               !.channel = (j = i)]] IN
       connections' =
          IF connection = "open"
          THEN Heard([answered EXCEPT ![Len(answered)].handlers = @ + 1], TRUE)
          ELSE Heard(answered, FALSE)
    /\ channel' = "open"
    /\ closing' = IF closing = "channel" THEN "oldChannel" ELSE closing
    /\ isConnected' = TRUE
    /\ reconnectAttempts' = 0
    /\ failedRun' = 0
    /\ UNCHANGED <<connection, connecting, orphaned, timers, connects, closes>>
    /\ UNCHANGED <<stockVars, breakerVars, queryVars, registryVars>>

\* connection i emits 'error': each listener registered on it sets
\* isConnected = false. (With no listener the emit throws and leaves the
\* client as it is.)
ConnectionErrors(i) ==
    /\ connections[i].handlers > 0
    /\ isConnected' = FALSE
    /\ UNCHANGED <<reconnectAttempts, connection, connections, connecting, orphaned,
                   timers, connects, failedRun, channel, closing, closes>>
    /\ UNCHANGED <<stockVars, breakerVars, queryVars, registryVars>>

\* connection i closes and emits 'close': each 'close' listener registered
\* on it runs isConnected = false and handleReconnect(), as many times as
\* connect() calls registered one, not at all when none did; a
\* createChannel() pending on it will reject, and a channel on it is closed.
\* When a close() call awaits this close, the call resumes: its promise
\* resolves when the closing handshake completed (then isConnected = false),
\* and rejects when the broker or the network closed the connection first
\* (then the catch block leaves the client as the listeners left it)
ConnectionCloses(i) ==
    /\ connections' =
          Heard(SubSeq(connections, 1, i - 1)
                  \o SubSeq(connections, i + 1, Len(connections)),
                connection = "open" /\ i # Len(connections))
    /\ connection' = IF connection = "open" /\ i = Len(connections)
                     THEN "closed" ELSE connection
    /\ orphaned' = IF connections[i].opening THEN orphaned + 1 ELSE orphaned
    /\ channel' = IF connections[i].channel THEN "closed" ELSE channel
    /\ HandleReconnect(connections[i].handlers)
    /\ IF connections[i].closing
       THEN /\ closing' = "idle"
            /\ \E resolved \in BOOLEAN :
                 isConnected' = IF resolved \/ connections[i].handlers > 0
                                THEN FALSE ELSE isConnected
       ELSE /\ closing' = closing
            /\ isConnected' = IF connections[i].handlers > 0 THEN FALSE
                              ELSE isConnected
    /\ UNCHANGED <<connecting, connects, failedRun, closes>>
    /\ UNCHANGED <<stockVars, breakerVars, queryVars, registryVars>>

\* a reconnect timer expires: its callback calls connect(), which runs up to
\* `await amqp.connect(this.url)`
ReconnectTimerFires ==
    /\ timers > 0
    /\ timers' = timers - 1
    /\ connecting' = connecting + 1
    /\ UNCHANGED <<reconnectAttempts, isConnected, connection, connections, orphaned,
                   connects, failedRun, channel, closing, closes>>
    /\ UNCHANGED <<stockVars, breakerVars, queryVars, registryVars>>

\* close(), from `if (this.connection)` on, on the connections conns: with
\* no connection, isConnected = false and the call ends; on a connection that
\* has closed, this.connection.close() throws and the catch block ends the
\* call; on the open one, the call awaits its close
CloseConnection(conns) ==
    IF connection = "null"
    THEN /\ isConnected' = FALSE
         /\ closing' = "idle"
         /\ connections' = conns
    ELSE IF connection = "closed"
    THEN /\ closing' = "idle"
         /\ connections' = conns
         /\ UNCHANGED isConnected
    ELSE /\ closing' = "connection"
         /\ connections' = [conns EXCEPT ![Len(conns)].closing = TRUE]
         /\ UNCHANGED isConnected

\* close() is called from outside (one call at a time): with an open
\* channel it runs up to `await this.channel.close()`; on a channel that has
\* closed, this.channel.close() throws and the catch block ends the call;
\* with no channel it goes on to the connection
Close ==
    /\ closes < MaxCloses
    /\ closing = "idle"
    /\ closes' = closes + 1
    /\ IF channel = "open"
       THEN /\ closing' = "channel"
            /\ UNCHANGED <<isConnected, connections>>
       ELSE IF channel = "closed"
       THEN UNCHANGED <<isConnected, connections, closing>>
       ELSE CloseConnection(connections)
    /\ UNCHANGED <<reconnectAttempts, connection, connecting, orphaned, timers,
                   connects, failedRun, channel>>
    /\ UNCHANGED <<stockVars, breakerVars, queryVars, registryVars>>

\* `await this.channel.close()` resolves: the channel is closed (it is
\* this.channel unless a connect() has replaced it since), and close() goes
\* on to the connection
ChannelClosed ==
    /\ closing \in {"channel", "oldChannel"}
    /\ channel' = IF closing = "channel" THEN "closed" ELSE channel
    /\ CloseConnection(connections)
    /\ UNCHANGED <<reconnectAttempts, connection, connecting, orphaned, timers,
                   connects, failedRun, closes>>
    /\ UNCHANGED <<stockVars, breakerVars, queryVars, registryVars>>

\* `await this.channel.close()` rejects (the channel or its connection was
\* lost first): the catch block ends the call
ChannelCloseFails ==
    /\ closing \in {"channel", "oldChannel"}
    /\ closing' = "idle"
    /\ UNCHANGED <<reconnectAttempts, isConnected, connection, connections, connecting,
                   orphaned, timers, connects, failedRun, channel, closes>>
    /\ UNCHANGED <<stockVars, breakerVars, queryVars, registryVars>>

\* the broker closes this.channel; the 'error' and 'close' listeners of the
\* channel only log
ChannelCloses ==
    /\ channel = "open"
    /\ channel' = "closed"
    /\ UNCHANGED <<reconnectAttempts, isConnected, connection, connections, connecting,
                   orphaned, timers, connects, failedRun, closing, closes>>
    /\ UNCHANGED <<stockVars, breakerVars, queryVars, registryVars>>

NextRabbit ==
    \/ Connect
    \/ ConnectFails
    \/ ConnectionOpens
    \/ ChannelFails
    \/ \E i \in DOMAIN connections : ConnectSucceeds(i)
    \/ \E i \in DOMAIN connections : ConnectionErrors(i)
    \/ \E i \in DOMAIN connections : ConnectionCloses(i)
    \/ ReconnectTimerFires
    \/ Close
    \/ ChannelClosed
    \/ ChannelCloseFails
    \/ ChannelCloses

\* one RabbitMQClient, its broker up or down at any time
SpecRabbit == Init /\ [][NextRabbit]_vars

(* ------------------------------------------------- the remote's answers *)
\* the HTTP status the products service answers a lookup with: the product
\* (200), or 'Product not found' (404, getProductById)
RemoteAnswers == {200, 404}

\* axios(config) resolves when validateStatus accepts the status (by default
\* status >= 200 && status < 300) and rejects otherwise; no errorFilter is
\* given to the breaker, so every rejection is a failure
\* (ValidateStatusBelow500: the variant that accepts every answer below 500)
ValidateStatusBelow500(status) == status >= 200 /\ status < 500
ValidateStatus(status) == status >= 200 /\ status < 300

\* httpRequest settles with the remote's answer
CallAnswered(i, status) ==
    IF ValidateStatus(status) THEN CallSucceeds(i) ELSE CallFails(i)

NextAnswers ==
    \/ FireSome
    \/ \E i \in 1..MaxCalls, status \in RemoteAnswers : CallAnswered(i, status)
    \/ \E i \in 1..MaxCalls : CallTimesOut(i)
    \/ ResetTimerFires
    \/ Tick

\* productsBreaker with the answers of the products service told apart
SpecAnswers == Init /\ [][NextAnswers]_vars

(* ------------------------------------------------------ late answers *)
\* httpRequest settles after the timeout of its call was reported: the
\* breaker's then/catch handlers test the call's timed-out flag and do
\* nothing
\* (LateAnsweredHandled: the variant whose then handler does not test it)
LateAnsweredHandled(status) ==
    /\ late > 0
    /\ late' = late - 1
    /\ IF ValidateStatus(status)
       THEN /\ window' = Increment(window, "successes")
            /\ results' = Append(results, Result("success", "remote", timeout))
            /\ IF ClosesOnSuccess(cbState)
               THEN /\ cbState' = CLOSED
                    /\ pendingClose' = FALSE
                    /\ resetTimer' = 0
                    /\ timerArmed' = FALSE
               ELSE UNCHANGED <<cbState, pendingClose, resetTimer, timerArmed>>
       ELSE UNCHANGED <<cbState, pendingClose, resetTimer, timerArmed, window, results>>
    /\ UNCHANGED <<inflight, owner, fired, hasFallback, openFor, phase,
                   stockVars, queryVars, registryVars, rabbitVars>>
LateAnswered(status) ==
    /\ late > 0
    /\ late' = late - 1
    /\ UNCHANGED <<cbState, pendingClose, window, inflight, owner, resetTimer,
                   timerArmed, fired, hasFallback, results, openFor, phase,
                   stockVars, queryVars, registryVars, rabbitVars>>

NextLate ==
    \/ FireSome
    \/ \E i \in 1..MaxCalls, status \in RemoteAnswers : CallAnswered(i, status)
    \/ \E i \in 1..MaxCalls : CallTimesOut(i)
    \/ \E status \in RemoteAnswers : LateAnswered(status)
    \/ ResetTimerFires
    \/ Tick

\* productsBreaker with remote calls that answer after their timeout
SpecLate == Init /\ [][NextLate]_vars

(* ---------------------------------------------------- the health route *)
\* anyOpen ? "DEGRADED" : anyHalf ? "RECOVERING" : "HEALTHY"
\* (HealthStatusHalfFirst: the variant that looks for HALF_OPEN first)
HealthStatusHalfFirst(stats) ==
    LET anyOpen == \E n \in DOMAIN stats : stats[n].state = "OPEN"
        anyHalf == \E n \in DOMAIN stats : stats[n].state = "HALF_OPEN"
    IN IF anyHalf THEN "RECOVERING" ELSE IF anyOpen THEN "DEGRADED" ELSE "HEALTHY"
HealthStatus(stats) ==
    LET anyOpen == \E n \in DOMAIN stats : stats[n].state = "OPEN"
        anyHalf == \E n \in DOMAIN stats : stats[n].state = "HALF_OPEN"
    IN IF anyOpen THEN "DEGRADED" ELSE IF anyHalf THEN "RECOVERING" ELSE "HEALTHY"

\* GET /health/circuit-breakers: synchronous, one getAllCircuitBreakerStats
\* call and the status computed from what it returned
GetHealth ==
    /\ report' = AllStats
    /\ health' = [success |-> TRUE, status |-> HealthStatus(AllStats),
                  circuitBreakers |-> AllStats]
    /\ UNCHANGED <<registry, created, handed, peerState,
                   stockVars, breakerVars, queryVars, rabbitVars>>

GetHealthOnce ==
    /\ health = NullValue
    /\ GetHealth

\* a second breaker is registered: getCircuitBreaker("suppliers-service", ...)
RegisterPeer ==
    /\ ~Has(registry, "suppliers-service")
    /\ GetCircuitBreaker("suppliers-service", OtherOptions, FALSE)

\* the state changes opossum makes: open, halfOpen, close
PeerTransitions ==
    {<<CLOSED, OPEN>>, <<OPEN, HALF_OPEN>>, <<HALF_OPEN, CLOSED>>,
     <<HALF_OPEN, OPEN>>, <<OPEN, CLOSED>>}

\* the breaker of suppliers-service changes state; its calls are not modelled
\* one by one, it is another instance made by createCircuitBreaker and moves
\* as such an instance can (OPEN to CLOSED is its resetBreaker)
PeerMoves(to) ==
    /\ Has(registry, "suppliers-service")
    /\ <<peerState, to>> \in PeerTransitions
    /\ peerState' = to
    /\ UNCHANGED <<registry, created, handed, report, health,
                   stockVars, breakerVars, queryVars, rabbitVars>>

\* execute calls made on productsBreaker when the health route is examined
MaxHealthCalls == MaxCalls - 2
FireFew ==
    /\ fired < MaxHealthCalls
    /\ Fire

NextHealth ==
    \/ FireFew
    \/ \E i \in 1..MaxCalls : CallSucceeds(i)
    \/ \E i \in 1..MaxCalls : CallFails(i)
    \/ \E i \in 1..MaxCalls : CallTimesOut(i)
    \/ ResetTimerFires
    \/ Tick
    \/ RegisterPeer
    \/ \E to \in {CLOSED, OPEN, HALF_OPEN} : PeerMoves(to)
    \/ GetHealthOnce

\* the service running with its breaker, a second breaker that may be
\* registered, and the health route requested once at any time
SpecHealth == Init /\ [][NextHealth]_vars

\* the breaker of a service restarted on its database, and one summary
\* request made at any time (MaxHealthCalls execute calls in one behaviour)
NextSummary ==
    \/ FireFew
    \/ \E i \in 1..MaxCalls : CallSucceeds(i)
    \/ \E i \in 1..MaxCalls : CallFails(i)
    \/ \E i \in 1..MaxCalls : CallTimesOut(i)
    \/ ResetTimerFires
    \/ Tick
    \/ GetStockSummaryOnce
    \/ \E part \in SummaryParts : SummaryAnswered(part)

\* the stock service restarted on the stocked database
InitRestarted == Constructed(TRUE, StockedDb)

SpecSummary == InitRestarted /\ [][NextSummary]_vars

(* ------------------------------------------------- derived quantities *)
\* the signed quantity of a movement or of a response's request
Signed(m) == IF m.type = ENTRY THEN m.quantity ELSE 0 - m.quantity

\* sum of ENTRY quantities minus sum of EXIT quantities of p's movements
RECURSIVE LedgerSum(_, _)
LedgerSum(ms, p) ==
    IF ms = << >> THEN 0
    ELSE (IF Head(ms).productId = p THEN Signed(Head(ms)) ELSE 0) + LedgerSum(Tail(ms), p)

\* sum of the signed deltas of the requests on p answered 201
RECURSIVE AppliedSum(_, _)
AppliedSum(rs, p) ==
    IF rs = << >> THEN 0
    ELSE (IF Head(rs).productId = p /\ Head(rs).status = 201 THEN Signed(Head(rs)) ELSE 0)
         + AppliedSum(Tail(rs), p)

\* the stored currentQuantity of p (an absent record counts as 0)
QuantityIn(levels, p) == IF p \in DOMAIN levels THEN levels[p].currentQuantity ELSE 0
StoredQuantity(p) == QuantityIn(stockLevels, p)

Answered == {responses[i] : i \in DOMAIN responses}
MovementsOf(r) == {i \in DOMAIN movements : movements[i].req = r.req}
Quiescent == \A t \in Tasks : pc[t] = "idle"
\* the request got its StockLevel document from getOrCreate before it answered
HadRead(r) == r.seen.lastUpdated > 0
\* the successful exits that read the same version d of an aggregate
ExitsOn(d) == {r \in Answered : r.type = EXIT /\ r.status = 201 /\ r.seen = d}
RECURSIVE TotalQuantity(_)
TotalQuantity(S) ==
    IF S = {} THEN 0
    ELSE LET r == CHOOSE x \in S : TRUE IN r.quantity + TotalQuantity(S \ {r})

(* -------------------------------------------------------------- claims *)

\* C1: for every item, in every state (also between the steps of a request in
\* flight), the stored currentQuantity equals the sum of the item's ENTRY
\* movements minus the sum of its EXIT movements.
C1_AggregateEqualsLedger ==
    \A p \in Products : StoredQuantity(p) = LedgerSum(movements, p)

\* C2: in every reachable state the stored currentQuantity of every aggregate
\* is >= 0.
C2_NeverNegative ==
    \A p \in DOMAIN stockLevels : stockLevels[p].currentQuantity >= 0

\* C2 witness: two exits that read the same aggregate have both been applied,
\* together asking for more than it held.
C2_Witness ==
    \E r1, r2 \in Answered :
        /\ r1.req # r2.req
        /\ r1 \in ExitsOn(r1.seen) /\ r2 \in ExitsOn(r1.seen)
        /\ r1.quantity + r2.quantity > r1.seen.currentQuantity
        /\ Quiescent

\* C3: two exits on one item that both read the aggregate before either wrote
\* it back do not both succeed when their quantities add up to more than the
\* stock they read.
C3_NoDoubleExit ==
    \A r1, r2 \in Answered :
        ( /\ r1.req # r2.req
          /\ r1.type = EXIT /\ r2.type = EXIT
          /\ r1.productId = r2.productId
          /\ HadRead(r1) /\ r1.seen = r2.seen
          /\ r1.quantity + r2.quantity > r1.seen.currentQuantity )
        => ~(r1.status = 201 /\ r2.status = 201)

\* C4: of the concurrent exits on one item (those that read the same version
\* of the aggregate), the successful ones take together no more than the
\* stock they started from, and one is rejected only if it did not fit.
C4_MaximalPrefix ==
    \A r \in Answered :
        (r.type = EXIT /\ HadRead(r)) =>
            /\ TotalQuantity(ExitsOn(r.seen)) <= r.seen.currentQuantity
            /\ r.status = 400 => r.quantity > r.seen.currentQuantity

\* C5: once all requests have completed, the stored currentQuantity of an
\* item is the starting quantity (0) plus the signed deltas of all the
\* requests on it that were answered with success.
C5_NoLostDelta ==
    Quiescent => \A p \in Products : StoredQuantity(p) = AppliedSum(responses, p)

\* C6: an exit asking for more than the current quantity is answered
\* "Insufficient stock" with available = the current quantity and requested =
\* the quantity asked, appends no movement and leaves the aggregate's
\* quantity as it is; an exit that read enough stock is not rejected.
C6_Rejected(r) ==
    /\ r.message = "Insufficient stock"
    /\ r.available = r.seen.currentQuantity
    /\ r.requested = r.quantity
    /\ MovementsOf(r) = {}
C6_State ==
    \A r \in Answered :
        (r.type = EXIT /\ HadRead(r)) =>
            /\ (r.quantity > r.seen.currentQuantity) => (r.status = 400 /\ C6_Rejected(r))
            /\ r.status = 400 => r.quantity > r.seen.currentQuantity
C6_Step ==
    (Len(responses') = Len(responses) + 1 /\ responses'[Len(responses')].status = 400)
    => LET r == responses'[Len(responses')] IN
       /\ movements' = movements
       /\ QuantityIn(stockLevels', r.productId) = QuantityIn(stockLevels, r.productId)
       /\ r.available = QuantityIn(stockLevels', r.productId)
C6_InsufficientStock == [](C6_State) /\ [][C6_Step]_vars

\* C6 witness: an exit asking for more than a non-empty aggregate holds has
\* been rejected.
C6_Witness ==
    \E r \in Answered :
        r.type = EXIT /\ r.status = 400 /\ r.available > 0 /\ r.requested > r.available

\* C7: a request that ends in failure leaves no movement of its own in the
\* ledger (and a request that ends in success leaves exactly one).
C7_AllOrNothing ==
    \A r \in Answered :
        /\ r.status # 201 => MovementsOf(r) = {}
        /\ r.status = 201 => Cardinality(MovementsOf(r)) = 1

\* C8: with one request in flight at a time, a successful entry (exit) of q
\* appends exactly one ENTRY (EXIT) movement of q and raises (lowers) the
\* item's currentQuantity by exactly q.
C8_SequentialEffect ==
    \A i \in DOMAIN responses :
        LET r == responses[i] IN
        r.status = 201 =>
            /\ Cardinality(MovementsOf(r)) = 1
            /\ \A j \in MovementsOf(r) :
                 /\ movements[j].type = r.type
                 /\ movements[j].quantity = r.quantity
                 /\ movements[j].productId = r.productId
            /\ r.currentStock = r.seen.currentQuantity + Signed(r)
            /\ (i = Len(responses) /\ Quiescent) =>
                 /\ StoredQuantity(r.productId) = r.currentStock
                 /\ StoredQuantity(r.productId) = AppliedSum(responses, r.productId)

\* C8 witness: from 0, an entry of 10 then an exit of 4 leave 6, with one
\* ENTRY and one EXIT recorded.
C8_Witness ==
    /\ Len(responses) = 2 /\ Len(movements) = 2 /\ Quiescent
    /\ responses[1].status = 201 /\ responses[1].type = ENTRY /\ responses[1].quantity = 10
    /\ responses[2].status = 201 /\ responses[2].type = EXIT /\ responses[2].quantity = 4
    /\ movements[1].type = ENTRY /\ movements[2].type = EXIT
    /\ StoredQuantity("X") = 6

\* C9: a request whose lookup ended in the breaker's fallback value is not
\* answered "Product not found": it proceeds, and its success response
\* carries the degraded-mode warning.
C9_FallbackProceeds ==
    \A r \in Answered :
        r.fallback => (r.status # 404 /\ (r.status = 201 => r.warning))

\* the calls completed (succeeded, failed or timed out) within the window
Completed(w) == Stats(w).successes + Stats(w).failures

\* C10: the breaker moves CLOSED -> OPEN exactly when, within the rolling
\* window, the completed calls have reached volumeThreshold and the failed or
\* timed-out ones are at least errorThresholdPercentage percent of them.
C10_Condition(w) ==
    /\ Completed(w) >= volumeThreshold
    /\ Stats(w).failures * 100 >= errorThresholdPercentage * Completed(w)
C10_Step ==
    (cbState = CLOSED /\ Len(inflight') < Len(inflight))
    => (cbState' = OPEN <=> C10_Condition(window'))
C10_OpensExactlyWhen == [][C10_Step]_vars

(* ---------------------------------------------- breaker: observations *)
Last(seq) == seq[Len(seq)]
\* every execute call settled so far ended as a failure of the remote call
AllFailed == \A i \in DOMAIN results : results[i].outcome = "failure"
\* an execute call is made in this step
Executes == fired' = fired + 1
\* a pending call settles in this step
Settles == Len(inflight') < Len(inflight)
\* the call made in this step is rejected: no remote call is attempted, the
\* rejection is counted, and the caller gets the fallback value if one is
\* configured and the breaker-open error if not
RejectedNow ==
    /\ inflight' = inflight
    /\ Stats(window').rejects = Stats(window).rejects + 1
    /\ Len(results') = Len(results) + 1
    /\ Last(results').outcome = "reject"
    /\ Last(results').returned = IF hasFallback THEN "fallback" ELSE "EOPENBREAKER"
\* the call made in this step is admitted: the remote call is attempted
AdmittedNow ==
    /\ Len(inflight') = Len(inflight) + 1
    /\ results' = results
    /\ Stats(window').rejects = Stats(window).rejects

\* C11: starting from CLOSED with an empty window, the breaker is still
\* CLOSED after one or two failing execute calls, and OPEN once three
\* consecutive failing calls have been made within the rolling window.
C11_ThreeFailuresOpen ==
    /\ (Len(results) <= 2 /\ fired = Len(results) /\ AllFailed) => cbState = CLOSED
    /\ (Len(results) = 3 /\ fired = 3 /\ AllFailed /\ Stats(window).fires = 3)
       => cbState = OPEN

\* C11 witness: three calls were made, all three failed inside the window,
\* and the breaker is OPEN.
C11_Witness ==
    /\ Len(results) = 3 /\ fired = 3 /\ AllFailed
    /\ Stats(window).fires = 3 /\ Stats(window).failures = 3
    /\ cbState = OPEN

\* C12: while the breaker is OPEN an execute call never attempts the remote
\* call: it adds one to the rejection counter and gives the fallback value
\* when a fallback is configured, the breaker-open error when none is.
C12_Step == (cbState = OPEN /\ Executes) => (RejectedNow /\ cbState' = OPEN)
C12_OpenRejects == [][C12_Step]_vars

\* C12 witness: a call was rejected with the breaker-open error by a breaker
\* without fallback that is OPEN.
C12_Witness ==
    /\ cbState = OPEN /\ ~hasFallback /\ results # << >>
    /\ Last(results) = Result("reject", "EOPENBREAKER", 0)
    /\ Stats(window).rejects >= 1

\* C13: once OPEN, the breaker becomes HALF_OPEN when resetTimeout has
\* elapsed, whether or not execute was called in the meantime; it then waits
\* for the next execute, which is admitted as the probe.
C13_Step ==
    /\ (cbState = OPEN /\ cbState' # OPEN)
       => (cbState' = HALF_OPEN /\ pendingClose' /\ openFor = resetTimeout)
    /\ (cbState = HALF_OPEN /\ pendingClose /\ ~Executes)
       => (cbState' = HALF_OPEN /\ pendingClose')
    /\ (cbState = HALF_OPEN /\ pendingClose /\ Executes) => AdmittedNow
C13_HalfOpenAfterReset ==
    /\ (cbState = OPEN) ~> (cbState = HALF_OPEN)
    /\ [][C13_Step]_vars

\* C13 witness: the breaker is HALF_OPEN after a full resetTimeout in OPEN
\* and the first call made since has been admitted.
C13_Witness ==
    /\ cbState = HALF_OPEN /\ ~pendingClose
    /\ openFor = resetTimeout
    /\ Len(inflight) = 1

\* C14: while the breaker is HALF_OPEN at most one remote call is in flight,
\* and an execute that arrives while the probe is pending is rejected without
\* a remote call, with the fallback (or the breaker-open error), as in OPEN.
C14_Step ==
    (cbState = HALF_OPEN /\ inflight # << >> /\ Executes)
    => (RejectedNow /\ cbState' = HALF_OPEN)
C14_OneProbe ==
    /\ [](cbState = HALF_OPEN => Len(inflight) <= 1)
    /\ [][C14_Step]_vars

\* C14 witness: the breaker is HALF_OPEN, the probe is in flight and the call
\* made after it has been rejected with the fallback.
C14_Witness ==
    /\ cbState = HALF_OPEN /\ Len(inflight) = 1 /\ inflight[1] = timeout
    /\ hasFallback /\ results # << >>
    /\ Last(results) = Result("reject", "fallback", 0)
    /\ Stats(window).fires = 2 /\ Stats(window).rejects = 1

\* a pending call settles in this step as a failure or a timeout
FailsNow == Settles /\ Last(results').outcome \in {"failure", "timeout"}
\* property went up by one in this step
\* (Stats(w)[property] is SumOver(w, property))
Counted(property) == SumOver(window', property) = SumOver(window, property) + 1
\* the breaker has been OPEN and has closed again since
Recovered == cbState = CLOSED /\ openFor = resetTimeout

\* C15: a probe that succeeds while the breaker is HALF_OPEN closes it, no
\* failure recorded before the recovery is left in the window, and a single
\* failing call right after the recovery leaves the breaker CLOSED.
C15_Step ==
    /\ (cbState = HALF_OPEN /\ Settles /\ Last(results').outcome = "success")
       => (cbState' = CLOSED /\ Stats(window').failures = 0)
    /\ (Recovered /\ results # << >> /\ Last(results).outcome = "success" /\ FailsNow)
       => cbState' = CLOSED
C15_ProbeSuccessCloses == [][C15_Step]_vars

\* C15 witness: the breaker opened, recovered through a successful probe, and
\* the call made right after the recovery failed without re-opening it.
C15_Witness ==
    /\ Recovered /\ Len(results) >= 2
    /\ Last(results).outcome = "failure"
    /\ results[Len(results) - 1].outcome = "success"
    /\ Stats(window).failures = 1

\* C16: a probe that fails or times out while the breaker is HALF_OPEN moves
\* it to OPEN whatever the counters say, and the breaker becomes HALF_OPEN
\* again only when it has been OPEN for a full resetTimeout since then.
C16_Step ==
    /\ (cbState = HALF_OPEN /\ FailsNow) => (cbState' = OPEN /\ openFor' = 0)
    /\ (cbState # HALF_OPEN /\ cbState' = HALF_OPEN)
       => (cbState = OPEN /\ openFor = resetTimeout)
    /\ (cbState = OPEN /\ cbState' = OPEN) => openFor' >= openFor
C16_ProbeFailureReopens == [][C16_Step]_vars

\* C16 witness: the probe timed out with a single call in the window, the
\* breaker went back to OPEN and is HALF_OPEN again a full resetTimeout later.
C16_Witness ==
    /\ cbState = HALF_OPEN /\ pendingClose /\ openFor = resetTimeout
    /\ fired = 4 /\ Len(results) = 4
    /\ results[4].outcome = "timeout" /\ results[3].outcome = "failure"

\* C17: in CLOSED a call that fails or times out is counted as such and
\* execute gives the fallback value when a fallback is configured, the error
\* when none is; a successful call is counted as a success and gives the
\* remote result.
C17_Step ==
    (cbState = CLOSED /\ Settles) =>
        LET r == Last(results') IN
        /\ Len(results') = Len(results) + 1
        /\ r.outcome \in {"success", "failure", "timeout"}
        /\ r.outcome = "success" => (r.returned = "remote" /\ Counted("successes"))
        /\ r.outcome = "failure" =>
             /\ Counted("failures")
             /\ r.returned = IF hasFallback THEN "fallback" ELSE "error"
        /\ r.outcome = "timeout" =>
             /\ Counted("timeouts")
             /\ r.returned = IF hasFallback THEN "fallback" ELSE "ETIMEDOUT"
C17_ClosedOutcomes == [][C17_Step]_vars

\* C17 witness: a CLOSED breaker with fallback has answered one call with the
\* remote result, one that failed four seconds after it was made with the
\* fallback value, and one that timed out with the fallback value.
C17_Witness ==
    /\ cbState = CLOSED /\ hasFallback
    /\ \E i, j, k \in DOMAIN results :
         /\ results[i] = Result("success", "remote", 0)
         /\ results[j] = Result("failure", "fallback", 4000)
         /\ results[k] = Result("timeout", "fallback", timeout)

\* C18 (step): a call that has not completed within the timeout settles at
\* the timeout: it is counted as a timeout and as a failure, the caller gets
\* the fallback value (or the timeout error), and the failure it counts
\* opens a CLOSED breaker under the same rule as a failed call.
C18_Step ==
    /\ (Settles /\ Last(results').outcome = "timeout") =>
         /\ Counted("timeouts") /\ Counted("failures")
         /\ Last(results').latency = timeout
         /\ Last(results').returned = IF hasFallback THEN "fallback" ELSE "ETIMEDOUT"
    /\ (cbState = CLOSED /\ FailsNow) =>
         (cbState' = OPEN <=>
             /\ Stats(window').fires >= volumeThreshold
             /\ Stats(window').failures * 100
                  > errorThresholdPercentage * Stats(window').fires)

\* C18 (state): no call stays pending beyond its timeout; and when the
\* window holds volumeThreshold execute calls or more, nothing is pending and
\* no call has ever ended otherwise than in a timeout or a rejection, the
\* breaker is no longer CLOSED: the timeouts alone have opened it.
C18_State ==
    /\ \A i \in DOMAIN inflight : inflight[i] >= 0
    /\ (/\ results # << >>
        /\ \A k \in DOMAIN results : results[k].outcome \in {"timeout", "reject"}
        /\ Stats(window).fires >= volumeThreshold
        /\ inflight = << >>)
       => cbState # CLOSED

\* C18: a timeout is counted and opens the breaker like a failure, and the
\* caller is answered at the timeout.
C18_TimeoutCounts == [](C18_State) /\ [][C18_Step]_vars

\* C18 witness: three calls made together ran into their timeouts; the
\* second timeout opened the breaker, and the third was counted while it
\* was OPEN.
C18_Witness ==
    /\ cbState = OPEN /\ openFor = 0
    /\ Len(results) = 3 /\ fired = 3
    /\ \A i \in DOMAIN results : results[i].outcome = "timeout" /\ results[i].latency = timeout
    /\ Stats(window).timeouts = 3 /\ Stats(window).failures = 3
    /\ Stats(window).fires = 3

(* ------------------------------------------------ queries: observations *)
\* the alerts of response r whose lookup ended in the fallback value
Unresolved(r) == {i \in DOMAIN r.alerts : r.alerts[i].unresolved}
\* the step is the one in which getLowStock is answered, and the documents
\* it returned
LowStockAnswered == reader.pc = "getLowStock" /\ reader'.pc # "getLowStock"
LowStockReturned == IF reader'.pc = "lookups" THEN reader'.items ELSE << >>
\* the documents getLowStock returned to the handler that is about to respond
LowStockAwaited == IF reader.pc = "lookups" THEN reader.items ELSE << >>
\* response r lists exactly the documents of items, in their order
ListsEveryLowItem(r, items) ==
    /\ Len(r.alerts) = Len(items)
    /\ \A i \in DOMAIN items :
         /\ r.alerts[i].productId = items[i].productId
         /\ r.alerts[i].currentQuantity = items[i].currentQuantity
    /\ r.count = Len(r.alerts)

\* C19: the alerts response lists one alert for every document getLowStock
\* returned (the aggregates at or below the threshold) however many lookups
\* failed, the number of unresolved items
\* it reports is the number of items whose lookup ended in the fallback, and
\* each of these is marked productAvailable = false.
C19_Step ==
    (alerts' # alerts) =>
        /\ ListsEveryLowItem(alerts', LowStockAwaited)
        /\ alerts'.failedCount = Cardinality(Unresolved(alerts'))
        /\ \A i \in Unresolved(alerts') : ~alerts'.alerts[i].productAvailable
C19_AlertsCountUnresolved == [][C19_Step]_vars

\* C20: getStockSummary can be received and each of its queries answered
\* in every state of the breaker, it answers with success from the local
\* collections, and none of its steps changes what getState reports, a
\* count of the window, the calls made, pending or settled, the reset timer
\* or the collections.
C20_Step ==
    /\ (reader' # reader) =>
        /\ GetState(cbState') = GetState(cbState)
        /\ Stats(window') = Stats(window)
        /\ fired' = fired /\ inflight' = inflight /\ results' = results
        /\ late' = late /\ timerArmed' = timerArmed /\ resetTimer' = resetTimer
        /\ stockLevels' = stockLevels /\ movements' = movements
    /\ (summary' # summary) =>
        /\ summary'.success
        /\ summary'.totalProducts = Cardinality(DOMAIN stockLevels)
        /\ summary'.recentMovementsCount = Len(movements)
SummarySteps == GetStockSummaryOnce \/ \E part \in SummaryParts : SummaryAnswered(part)
DomainStatuses == {201, 400, 404}

\* C21: no failure of the products service (error answer, timeout, breaker
\* rejection) reaches the caller of an entry, an exit or the alerts: every
\* execute call that ended in one of them gave the fallback value, a request
\* whose lookup ended in the fallback is answered with a domain-level
\* status, no response carries the error of the remote call, and in the
\* alerts response no lookup is reported as rejected.
C21_FailuresContained ==
    /\ \A k \in DOMAIN results :
         results[k].outcome \in {"failure", "timeout", "reject"}
         => results[k].returned = "fallback"
    /\ \A r \in Answered :
         /\ r.message # TransportError
         /\ r.fallback => r.status \in DomainStatuses
    /\ alerts # NullValue =>
         /\ alerts.success
         /\ alerts.failedCount = 0
         /\ alerts.count = Len(alerts.alerts)

\* C21 witness: after an entry was recorded, the lookup of the next request
\* timed out and the lookup of the third failed; both were answered 404 and
\* the breaker opened; the lookup of the alerts request was then rejected
\* and the alerts were served with the item unresolved
C21_Witness ==
    /\ Len(responses) = 3
    /\ responses[1].status = 201 /\ ~responses[1].fallback
    /\ responses[2].status = 404 /\ responses[2].fallback
    /\ responses[3].status = 404 /\ responses[3].fallback
    /\ Len(results) = 4
    /\ results[2].outcome = "timeout" /\ results[3].outcome = "failure"
    /\ results[4].outcome = "reject"
    /\ alerts # NullValue /\ Unresolved(alerts) # {}
    /\ cbState = OPEN

(* ------------------------------------------------ items are independent *)
\* the aggregate of p (NoDoc when there is none) and the movements of p
LevelOf(levels, p) == IF p \in DOMAIN levels THEN levels[p] ELSE NoDoc
LedgerOf(ledger, p) == {ledger[i] : i \in {j \in DOMAIN ledger : ledger[j].productId = p}}
\* the handler t takes this step, and the item of the request it works on
Steps(t) == pc'[t] # pc[t]
ItemOf(t) == IF pc[t] = "idle" THEN args'[t].productId ELSE args[t].productId

\* C22 (frame): a step of a request on item A leaves the aggregate and the
\* movements of every other item as they are.
C22_Step ==
    \A p \in {"X", "Y"} :
        (\/ LevelOf(stockLevels', p) # LevelOf(stockLevels, p)
         \/ LedgerOf(movements', p) # LedgerOf(movements, p))
        => \E t \in Tasks : Steps(t) /\ ItemOf(t) = p

\* response i is the latest among responses 1..n that recorded a movement of p
IsLatestRecorded(i, n, p) ==
    /\ responses[i].status = 201 /\ responses[i].productId = p
    /\ \A k \in (i + 1)..n :
         ~(responses[k].status = 201 /\ responses[k].productId = p)

\* C22 (independence): requests on different items that overlap answer as
\* they would alone: no duplicate key and no negative quantity is ever
\* raised, a recorded request reports the quantity it read plus its own
\* delta, an exit is refused only when its own item is short, every recorded
\* request read what the previous recorded request on its item had written,
\* and at rest every item holds what the last recorded request on it wrote.
C22_State ==
    /\ \A r \in Answered :
         /\ r.status # 409
         /\ r.status = 500 => HadRead(r) /\ r.seen.currentQuantity + Signed(r) >= 0
         /\ r.status = 201 => r.currentStock = r.seen.currentQuantity + Signed(r)
         /\ r.status = 400 => r.type = EXIT /\ r.available < r.quantity
    /\ \A j \in DOMAIN responses :
         responses[j].status = 201 =>
            /\ \A i \in 1..(j - 1) :
                 (/\ IsLatestRecorded(i, j - 1, responses[j].productId))
                 => responses[j].seen.currentQuantity = responses[i].currentStock
            /\ (Quiescent /\ IsLatestRecorded(j, Len(responses), responses[j].productId))
               => StoredQuantity(responses[j].productId) = responses[j].currentStock

\* C22: an entry or exit on one item leaves every other item unchanged, and
\* overlapping requests on different items neither fail because of each
\* other nor lose an update.
C22_ItemsIndependent == [](C22_State) /\ [][C22_Step]_vars

\* C22 witness: on the stocked database an exit of 4 on X and an exit of 10
\* on Y overlapped (the later one was answered first), both were recorded,
\* and X holds 0 and Y holds 4
C22_Witness ==
    /\ Quiescent /\ Len(responses) = 2
    /\ responses[1].req = 2 /\ responses[2].req = 1
    /\ responses[1].status = 201 /\ responses[2].status = 201
    /\ responses[1].type = EXIT /\ responses[2].type = EXIT
    /\ responses[1].productId # responses[2].productId
    /\ StoredQuantity("X") = 0 /\ StoredQuantity("Y") = 4

(* ------------------------------------------------------- the ledger *)
\* C23 (step): every movement of the ledger is still there, at its place and
\* with its fields, after the step; and the ledger changes only by one new
\* movement at its end, made by a handler of addStockEntry or removeStockExit
\* at its StockMovement.create, from the request's productId, type and
\* quantity.
C23_Step ==
    /\ \A i \in DOMAIN movements :
         i \in DOMAIN movements' /\ movements'[i] = movements[i]
    /\ movements' # movements =>
         /\ Len(movements') = Len(movements) + 1
         /\ \E t \in Tasks :
              /\ pc[t] = "createMovement" /\ Steps(t)
              /\ Last(movements').req = args[t].req
              /\ Last(movements').productId = args[t].productId
              /\ Last(movements').type = args[t].type
              /\ Last(movements').quantity = args[t].quantity
              /\ args[t].type \in MOVEMENT_TYPES

\* C23: the ledger is append-only, and only entries and exits append to it.
C23_AppendOnly == [][C23_Step]_vars

\* C23 witness: a second movement of X was recorded after the first, and
\* the ledger has been read since
C23_Witness ==
    /\ Cardinality(LedgerOf(movements, "X")) >= 2
    /\ level # NullValue
    /\ Quiescent

(* ------------------------------------------------------- getOrCreate *)
\* C24: getOrCreate returns the item's aggregate to every request, also to
\* requests that reach it together for an unknown item (no request is
\* answered with an error raised before it had its document), and the
\* record created on first access holds quantity 0.
\* (stockLevels maps a productId to its one record: the unique index)
C24_GetOrCreateReturns ==
    /\ \A r \in Answered : r.status \in {409, 500} => HadRead(r)
    /\ \A t \in Tasks :
         (pc[t] = "createMovement" /\ seen[t].lastUpdated > 0
            /\ Cardinality(LedgerOf(movements, args[t].productId)) = 0)
         => seen[t].currentQuantity = 0

(* -------------------------------------------------------- getLowStock *)
\* C25 (step): the documents getLowStock returns are exactly the aggregates
\* whose currentQuantity is <= the threshold passed, as they are stored when
\* it is answered, each once and with its stored quantity, in ascending
\* order of currentQuantity, and the step changes no aggregate and no
\* movement; and the alerts response lists these documents in that order.
C25_Step ==
    /\ LowStockAnswered =>
        LET r == LowStockReturned IN
        /\ {r[i].productId : i \in DOMAIN r}
             = {p \in DOMAIN stockLevels :
                    stockLevels[p].currentQuantity <= reader.threshold}
        /\ \A i, j \in DOMAIN r : i # j => r[i].productId # r[j].productId
        /\ \A i \in DOMAIN r :
             r[i].currentQuantity = stockLevels[r[i].productId].currentQuantity
        /\ \A i, j \in DOMAIN r : i < j => r[i].currentQuantity <= r[j].currentQuantity
        /\ UNCHANGED <<stockLevels, movements>>
    /\ (alerts' # alerts) =>
        /\ alerts'.threshold = reader.threshold
        /\ ListsEveryLowItem(alerts', LowStockAwaited)

\* C25: getLowStock returns exactly the aggregates at or below the
\* threshold, ascending by quantity, and changes nothing.
C25_LowStockExact == [][C25_Step]_vars

\* C25 witness: Y was stocked with 10 and then X with 4; with threshold 10
\* the list is X (4) before Y (10, equal to the threshold)
C25_Witness ==
    /\ alerts # NullValue
    /\ alerts.threshold = 10
    /\ Len(alerts.alerts) = 2
    /\ alerts.alerts[1].productId = "X" /\ alerts.alerts[1].currentQuantity = 4
    /\ alerts.alerts[2].productId = "Y" /\ alerts.alerts[2].currentQuantity = 10
    /\ alerts.alerts[1].lastUpdated > alerts.alerts[2].lastUpdated

(* ------------------------------------------------------- getByProduct *)
\* the movements of sequence found, as a set
Listed(found) == {found[i] : i \in DOMAIN found}

\* what getByProduct(p, limit) returned as found is right for the ledger:
\* movements of p only, each a movement of the ledger and none twice, at
\* most limit of them and all of them when p has no more than limit, no
\* movement of p left out is more recent than one returned, and the most
\* recent first
MostRecent(found, ledger, p, limit) ==
    /\ Listed(found) \subseteq LedgerOf(ledger, p)
    /\ Cardinality(Listed(found)) = Len(found)
    /\ Len(found) <= limit
    /\ Len(found) = Min(limit, Cardinality(LedgerOf(ledger, p)))
    /\ \A m \in LedgerOf(ledger, p) \ Listed(found) :
         \A i \in DOMAIN found : m.timestamp <= found[i].timestamp
    /\ \A i, j \in DOMAIN found : i < j => found[i].timestamp >= found[j].timestamp

\* C26 (step): a call of getByProduct, directly or by getProductStockLevel
\* with limit 10, returns the most recent movements of the item as above
\* and leaves the ledger as it is.
C26_Step ==
    /\ (listed' # listed) =>
         /\ MostRecent(listed'.movements, movements, listed'.productId, listed'.limit)
         /\ movements' = movements
    /\ (level' # level /\ level'.success) =>
         /\ MostRecent(level'.recentMovements, movements, level'.productId, RecentLimit)
         /\ movements' = movements

\* C26: getByProduct returns only movements of the item, at most limit, the
\* most recent ones, most recent first, and changes nothing in the ledger.
C26_MostRecentFirst == [][C26_Step]_vars

\* C26 witness: Y has three movements or more, X has some, and
\* getByProduct("Y", 2) returned the two latest of Y's, the most recent first
C26_Witness ==
    /\ listed # NullValue
    /\ listed.productId = "Y" /\ listed.limit = 2
    /\ Cardinality(LedgerOf(movements, "Y")) >= 3
    /\ Cardinality(LedgerOf(movements, "X")) >= 1
    /\ Len(listed.movements) = 2
    /\ listed.movements[1].timestamp > listed.movements[2].timestamp
    /\ \A m \in LedgerOf(movements, "Y") : m.timestamp <= listed.movements[1].timestamp

(* ------------------------------------------------------ resetBreaker *)
\* C27 (state): in every state resetBreaker can be called and leaves the
\* breaker CLOSED with no probe pending and no reset timer running.
C27_Forces ==
    ENABLED (ResetBreaker /\ cbState' = CLOSED /\ ~pendingClose' /\ ~timerArmed')

\* C27 (step): the breaker becomes HALF_OPEN only out of OPEN and after a
\* whole resetTimeout in OPEN, so never out of the CLOSED state a reset has
\* left; and a call made in CLOSED is admitted.
C27_Step ==
    /\ (cbState' = HALF_OPEN /\ cbState # HALF_OPEN) =>
         cbState = OPEN /\ openFor = resetTimeout
    /\ (Executes /\ cbState = CLOSED) => AdmittedNow

\* C27: resetBreaker forces CLOSED from any state, the reset timer of the
\* OPEN state it ended does not move the breaker to HALF_OPEN later, and
\* calls pass.
C27_ResetCloses == [](C27_Forces) /\ [][C27_Step]_vars

\* C27 witness: three failures opened the breaker, it was reset 25 s or more
\* into OPEN, the fourth call was admitted and succeeded, and 10 s later
\* (the window is empty again, the timer of the OPEN state would have
\* expired) the breaker is still CLOSED
C27_Witness ==
    /\ cbState = CLOSED
    /\ openFor >= resetTimeout - timeout /\ openFor < resetTimeout
    /\ fired = 4 /\ Len(results) = 4
    /\ \A i \in 1..3 : results[i].outcome = "failure"
    /\ results[4].outcome = "success"
    /\ Stats(window).fires = 0

(* -------------------------------------------------------- the registry *)
\* the first getCircuitBreaker call made with the name of call i
FirstCall(i) == CHOOSE j \in DOMAIN handed :
                    /\ handed[j].name = handed[i].name
                    /\ \A k \in 1..(j - 1) : handed[k].name # handed[i].name

\* C28 (state): every getCircuitBreaker call returned the instance created
\* by the first call with its name, built from that first call's options
\* and fallback; the registry holds that instance under the name, one
\* instance per name requested and nothing else.
C28_State ==
    /\ \A i \in DOMAIN handed :
         LET first == handed[FirstCall(i)] IN
         /\ handed[i].instance = first.instance
         /\ handed[i].instance.name = handed[i].name
         /\ handed[i].instance.options = MergeOptions(first.options)
         /\ handed[i].instance.fallback = first.fallback
         /\ handed[i].name \in DOMAIN registry
         /\ registry[handed[i].name] = first.instance
    /\ DOMAIN registry = {handed[i].name : i \in DOMAIN handed}
    /\ \A n, m \in DOMAIN registry : n # m => registry[n].id # registry[m].id

\* C28 (step): an entry of the registry is never removed or replaced, and a
\* report of getAllCircuitBreakerStats has exactly the registered names.
C28_Step ==
    /\ \A n \in DOMAIN registry : n \in DOMAIN registry' /\ registry'[n] = registry[n]
    /\ (report' # report) =>
         /\ DOMAIN report' = DOMAIN registry
         /\ \A n \in DOMAIN report' : report'[n].name = n

\* C28: one breaker per name, the first call's; entries stay; the stats
\* report lists the registered names.
C28_OnePerName == [](C28_State) /\ [][C28_Step]_vars

\* C28 witness: the second call for products-service passed other options
\* and another fallback than the first and got the first call's instance, a
\* call for suppliers-service got another instance, and the report names both
C28_Witness ==
    /\ Len(handed) = 3
    /\ handed[1].name = "products-service" /\ handed[2].name = "suppliers-service"
    /\ handed[3].name = "products-service"
    /\ handed[3].options # handed[1].options /\ handed[3].fallback # handed[1].fallback
    /\ handed[3].instance = handed[1].instance
    /\ handed[2].instance.id # handed[1].instance.id
    /\ report # NullValue
    /\ DOMAIN report = ServiceNames

(* ------------------------------------------------- counters and calls *)
\* the outcome classes of a call and the counter of each
OutcomeCounters == {"successes", "failures", "rejects"}
CounterOf(outcome) ==
    IF outcome = "success" THEN "successes"
    ELSE IF outcome = "reject" THEN "rejects"
    ELSE "failures"

\* C29 (step): an execute call adds exactly one to fires, and nothing else
\* ever adds to fires; a call that settles or is rejected adds exactly one
\* to the counter of its outcome class and nothing to the other two, and
\* these counters go up in no other step.
C29_Step ==
    /\ Executes => Counted("fires")
    /\ (~Executes /\ window' # window) =>
         SumOver(window', "fires") <= SumOver(window, "fires")
    /\ (Len(results') = Len(results) + 1) =>
         /\ Counted(CounterOf(Last(results').outcome))
         /\ \A c \in OutcomeCounters \ {CounterOf(Last(results').outcome)} :
              SumOver(window', c) = SumOver(window, c)
    /\ (results' = results /\ window' # window) =>
         \A c \in OutcomeCounters : SumOver(window', c) <= SumOver(window, c)

\* C29 (state): when every call made has completed and none has left the
\* rolling window, each caller has had one result, each counter is the
\* number of callers that had a result of its class, and the outcome counts
\* add up to the number of calls.
C29_State ==
    (inflight = << >> /\ Stats(window).fires = fired) =>
        LET ended(outcomes) ==
                Cardinality({k \in DOMAIN results : results[k].outcome \in outcomes})
        IN /\ Len(results) = fired
           /\ Stats(window).successes = ended({"success"})
           /\ Stats(window).failures = ended({"failure", "timeout"})
           /\ Stats(window).timeouts = ended({"timeout"})
           /\ Stats(window).rejects = ended({"reject"})
           /\ Stats(window).successes + Stats(window).failures + Stats(window).rejects
                = fired

\* C29: no counter update is lost: k completed calls within one window give
\* fires = k and outcome counts that add up to k.
C29_NoLostCount == [](C29_State) /\ [][C29_Step]_vars

\* C29 witness: five calls within one window, all completed: one success,
\* two failures and a timeout (three failures counted), and one rejection
C29_Witness ==
    /\ fired = 5 /\ inflight = << >>
    /\ Stats(window).fires = 5
    /\ Stats(window).successes = 1
    /\ Stats(window).failures = 3 /\ Stats(window).timeouts = 1
    /\ Stats(window).rejects = 1

\* C30 (state): in CLOSED a call can be made and is admitted whatever calls
\* are pending, and every pending call can complete on its own: succeed or
\* fail when the remote call answers, time out when its own timer is due.
C30_State ==
    /\ (cbState = CLOSED /\ fired < MaxCalls /\ phase = 0) =>
         ENABLED (Fire /\ Len(inflight') = Len(inflight) + 1)
    /\ \A i \in DOMAIN inflight :
         /\ Answers(inflight[i]) => ENABLED CallSucceeds(i) /\ ENABLED CallFails(i)
         /\ inflight[i] = 0 => ENABLED CallTimesOut(i)

\* C30 (step): a call made in CLOSED is admitted, and a call that completes
\* leaves the timers of the other pending calls as they are.
C30_Step ==
    /\ (Executes /\ cbState = CLOSED) => AdmittedNow
    /\ Settles => \E i \in DOMAIN inflight : inflight' = Remove(inflight, i)

\* C30: in CLOSED a pending call does not block other calls.
C30_PendingDoesNotBlock == [](C30_State) /\ [][C30_Step]_vars

\* C30 witness: the first call has been pending for its whole timeout and is
\* still in flight; the second call, made 5 s after it, was admitted and has
\* already succeeded; the breaker is CLOSED
C30_Witness ==
    /\ cbState = CLOSED
    /\ fired = 2
    /\ inflight = <<0>>
    /\ Len(results) = 1 /\ results[1].outcome = "success"

(* -------------------------------------------------- state transitions *)
\* a pending call succeeds in this step
SucceedsNow == Settles /\ Last(results').outcome = "success"
\* resetBreaker takes the breaker to CLOSED in this step: no call is made or
\* settled, no count changes
ResetsNow ==
    /\ cbState # CLOSED /\ cbState' = CLOSED
    /\ results' = results /\ inflight' = inflight /\ window' = window
    /\ fired' = fired

\* C31 (step): the state getState reports changes only from CLOSED to OPEN
\* on a failing call, from OPEN to HALF_OPEN after resetTimeout in OPEN, from
\* HALF_OPEN to CLOSED on a succeeding call, from HALF_OPEN to OPEN on a
\* failing call, or to CLOSED by a reset.
C31_Step ==
    LET before == GetState(cbState)
        after == GetState(cbState')
    IN (after # before) =>
        \/ before = "CLOSED" /\ after = "OPEN" /\ FailsNow
        \/ before = "OPEN" /\ after = "HALF_OPEN" /\ openFor = resetTimeout
        \/ before = "HALF_OPEN" /\ after = "CLOSED" /\ SucceedsNow
        \/ before = "HALF_OPEN" /\ after = "OPEN" /\ FailsNow
        \/ ResetsNow

\* C31 (state): getState reports one of the three states, and the one the
\* breaker acts in: calls are rejected exactly when it reports OPEN, or
\* HALF_OPEN with the probe under way, and the reset timer runs exactly when
\* it reports OPEN.
C31_State ==
    /\ GetState(cbState) \in {"CLOSED", "OPEN", "HALF_OPEN"}
    /\ Rejects(cbState, pendingClose)
         <=> \/ GetState(cbState) = "OPEN"
             \/ GetState(cbState) = "HALF_OPEN" /\ ~pendingClose
    /\ timerArmed <=> GetState(cbState) = "OPEN"

\* C31: the breaker moves along the five transitions only, getState reports
\* one of the three states, and an OPEN breaker does not stay OPEN: it
\* becomes HALF_OPEN, unless a reset closes it first.
C31_Transitions ==
    /\ [](C31_State)
    /\ [][C31_Step]_vars
    /\ (cbState = OPEN) ~> (cbState # OPEN)

\* C31 witness: the breaker went CLOSED -> OPEN (three failures), OPEN ->
\* HALF_OPEN (a whole resetTimeout in OPEN), HALF_OPEN -> OPEN (the probe,
\* the fourth call, failed: it was made after the three failures had left
\* the window) and is OPEN again for 5 s
C31_Witness ==
    /\ cbState = OPEN
    /\ fired = 4 /\ Len(results) = 4
    /\ \A i \in 1..4 : results[i].outcome \in {"failure", "timeout"}
    /\ Stats(window).fires = 1 /\ Stats(window).failures = 1
    /\ openFor = timeout

(* ------------------------------------------------------ exit to zero *)
\* response r answers an exit of the whole quantity its request read
TakesAll(r) ==
    r.type = EXIT /\ HadRead(r) /\ r.quantity = r.seen.currentQuantity

\* C32 (state): an exit of the item's whole quantity is never refused for
\* insufficient stock; recorded, it reports 0, and once it is the last
\* request answered the item's record exists and holds 0. (A 500 is the
\* storage error of save().)
C32_State ==
    \A i \in DOMAIN responses :
        LET r == responses[i] IN
        TakesAll(r) =>
            /\ r.status \in {201, 500}
            /\ r.status = 201 =>
                 /\ r.currentStock = 0
                 /\ (i = Len(responses) /\ Quiescent) =>
                      /\ r.productId \in DOMAIN stockLevels
                      /\ stockLevels[r.productId].currentQuantity = 0

\* C32 (step): no step removes an aggregate; a read of an existing item
\* returns its record, also when it holds 0, and creates nothing; getLowStock
\* returns every aggregate that holds 0 when it is answered, and the alerts
\* response lists every document getLowStock returned.
C32_Step ==
    /\ DOMAIN stockLevels \subseteq DOMAIN stockLevels'
    /\ \A t \in Tasks :
         (pc[t] = "findOne" /\ Steps(t) /\ args[t].productId \in DOMAIN stockLevels)
         => /\ seen'[t] = stockLevels[args[t].productId]
            /\ stockLevels' = stockLevels
    /\ LowStockAnswered =>
         \A p \in DOMAIN stockLevels :
            stockLevels[p].currentQuantity = 0 =>
               \E i \in DOMAIN LowStockReturned :
                  /\ LowStockReturned[i].productId = p
                  /\ LowStockReturned[i].currentQuantity = 0
    /\ (alerts' # alerts) => ListsEveryLowItem(alerts', LowStockAwaited)

\* C32: an exit of the entire quantity succeeds and leaves 0, the record
\* stays, is returned by later reads and listed by getLowStock, and no
\* operation deletes an aggregate.
C32_ExitToZero == [](C32_State) /\ [][C32_Step]_vars

\* C32 witness: an entry of 4 on X, then an exit of 4 on X recorded with
\* currentStock 0, and the alerts then list X with quantity 0
C32_Witness ==
    /\ Quiescent /\ Len(responses) = 2
    /\ responses[1].type = ENTRY /\ responses[1].status = 201
    /\ TakesAll(responses[2]) /\ responses[2].status = 201
    /\ responses[2].quantity = 4 /\ responses[2].currentStock = 0
    /\ "X" \in DOMAIN stockLevels /\ stockLevels["X"].currentQuantity = 0
    /\ alerts # NullValue
    /\ \E i \in DOMAIN alerts.alerts :
         alerts.alerts[i].productId = "X" /\ alerts.alerts[i].currentQuantity = 0

(* --------------------------------------------------- product not found *)
\* C33 (step): the step in which a handler gets no product from the lookup
\* answers that request 404 'Product not found' and ends the handler, and
\* the lookup step changes no aggregate and no movement.
C33_Step ==
    \A t \in Tasks :
        (pc[t] = "getProductInfo" /\ Steps(t)) =>
            /\ stockLevels' = stockLevels /\ movements' = movements
            /\ product'[t] = NullValue =>
                 /\ pc'[t] = "idle"
                 /\ Len(responses') = Len(responses) + 1
                 /\ Last(responses').req = args[t].req
                 /\ Last(responses').status = 404
                 /\ Last(responses').message = "Product not found"

\* C33 (state): a request answered 404 never read or created an aggregate
\* and has no movement; when every request so far was answered 404 there is
\* no aggregate and no movement at all.
C33_State ==
    /\ \A r \in Answered :
         r.status = 404 =>
            /\ r.message = "Product not found"
            /\ ~HadRead(r)
            /\ MovementsOf(r) = {}
    /\ (Quiescent /\ \A r \in Answered : r.status = 404) =>
         stockLevels = << >> /\ movements = << >>

\* C33: when the lookup yields no product, the entry or exit answers
\* 'Product not found' and has no effect.
C33_NotFoundNoEffect == [](C33_State) /\ [][C33_Step]_vars

\* C33 witness: an entry and an exit were both answered 404, and nothing is
\* stored
C33_Witness ==
    /\ Quiescent
    /\ \E r \in Answered : r.status = 404 /\ r.type = ENTRY
    /\ \E r \in Answered : r.status = 404 /\ r.type = EXIT
    /\ stockLevels = << >> /\ movements = << >>

(* -------------------------------------------------- requested threshold *)
\* C34 (step): for an alerts request made with threshold t >= 0, the
\* documents found are exactly the aggregates whose currentQuantity is <= t
\* when getLowStock is answered, and the response lists them with a count
\* equal to the number of alerts in it.
C34_Step ==
    /\ (LowStockAnswered /\ ParseInt(reader.requested) # NA) =>
         LET r == LowStockReturned IN
         {r[i].productId : i \in DOMAIN r}
            = {p \in DOMAIN stockLevels :
                   stockLevels[p].currentQuantity <= ParseInt(reader.requested)}
    /\ (alerts' # alerts) => ListsEveryLowItem(alerts', LowStockAwaited)

\* C34: for every requested threshold t >= 0, t = 0 included, the alerts
\* are exactly the aggregates at or below t and count is their number.
C34_RequestedThreshold == [][C34_Step]_vars

(* ------------------------------------------------------- health report *)
\* the states of the registered breakers, as getState reports them
StatesRegistered == {GetState(StateOf(n)) : n \in DOMAIN registry}

\* C35 (step): a health response is DEGRADED iff some registered breaker is
\* OPEN, RECOVERING iff none is OPEN and some is HALF_OPEN, HEALTHY iff
\* neither; it has one entry per registered breaker, whose state is what
\* getState returns for that breaker and whose enabled is false exactly
\* when that state is OPEN. What is reported is what a caller meets: under a
\* HEALTHY report an execute call on productsBreaker is admitted, and when
\* productsBreaker is reported not enabled the call is rejected and the reset
\* timer is running.
C35_Step ==
    (health' # health) =>
        LET h == health' IN
        /\ h.status \in {"DEGRADED", "RECOVERING", "HEALTHY"}
        /\ h.status = "DEGRADED" <=> "OPEN" \in StatesRegistered
        /\ h.status = "RECOVERING" <=>
              ("OPEN" \notin StatesRegistered /\ "HALF_OPEN" \in StatesRegistered)
        /\ h.status = "HEALTHY" <=> StatesRegistered \subseteq {"CLOSED"}
        /\ DOMAIN h.circuitBreakers = DOMAIN registry
        /\ \A n \in DOMAIN registry :
             /\ h.circuitBreakers[n].state = GetState(StateOf(n))
             /\ h.circuitBreakers[n].enabled = FALSE
                  <=> GetState(StateOf(n)) = "OPEN"
        /\ h.status = "HEALTHY" => ~Rejects(cbState, pendingClose)
        /\ h.circuitBreakers["products-service"].enabled = FALSE
             => (Rejects(cbState, pendingClose) /\ timerArmed)

\* C35: the health status follows the breakers' states, and getStats agrees
\* with getState and reports enabled false exactly for OPEN.
C35_HealthReport == [][C35_Step]_vars

\* C35 witness: the report was made while products-service was HALF_OPEN and
\* suppliers-service OPEN; it is DEGRADED, with products-service enabled and
\* suppliers-service not
C35_Witness ==
    /\ health # NullValue
    /\ DOMAIN health.circuitBreakers = ServiceNames
    /\ health.circuitBreakers["products-service"].state = "HALF_OPEN"
    /\ health.circuitBreakers["products-service"].enabled = TRUE
    /\ health.circuitBreakers["suppliers-service"].state = "OPEN"
    /\ health.circuitBreakers["suppliers-service"].enabled = FALSE
    /\ health.status = "DEGRADED"

(* ------------------------------------------------- errors as failures *)
\* the rule by which a counted failure opens a CLOSED breaker
OpeningRule(w) ==
    /\ Stats(w).fires >= volumeThreshold
    /\ Stats(w).failures * 100 > errorThresholdPercentage * Stats(w).fires

\* C36 (step): a call the products service answers with 404, and a call
\* that times out, settles as an error: the caller gets the fallback, the
\* failures counter goes up by one, and the failure opens a CLOSED breaker
\* when the opening rule holds with it counted.
C36_Step ==
    \A i \in DOMAIN inflight :
        (CallAnswered(i, 404) \/ CallTimesOut(i)) =>
            /\ Len(results') = Len(results) + 1
            /\ Last(results').outcome \in {"failure", "timeout"}
            /\ CallAnswered(i, 404) => Last(results').outcome = "failure"
            /\ Last(results').returned = "fallback"
            /\ Stats(window').failures = Stats(window).failures + 1
            /\ (cbState = CLOSED /\ OpeningRule(window')) => cbState' = OPEN

\* C36 (state): when the window holds volumeThreshold execute calls or more,
\* nothing is pending and every call settled so far has ended with an error
\* (a 404 answer, a timeout) or was rejected, the breaker is no longer
\* CLOSED: the errors have opened it.
C36_State ==
    (/\ results # << >>
     /\ \A k \in DOMAIN results : results[k].outcome \in {"failure", "timeout", "reject"}
     /\ Stats(window).fires >= volumeThreshold
     /\ inflight = << >>)
    => cbState # CLOSED

\* C36: every call that ends with an error counts as a failure toward the
\* opening threshold, a 'not found' answer included.
C36_ErrorsCount == [](C36_State) /\ [][C36_Step]_vars

\* C36 witness: three lookups were answered 404 and nothing else happened
\* to the breaker; it is OPEN and the fourth call was rejected without a
\* remote call
C36_Witness ==
    /\ Len(results) = 4
    /\ \A k \in 1..3 : results[k].outcome = "failure"
    /\ results[4].outcome = "reject"
    /\ results[4].returned = "fallback"
    /\ cbState = OPEN
    /\ Stats(window).failures = 3 /\ Stats(window).successes = 0
    /\ Stats(window).timeouts = 0

(* -------------------------------------------------------- late answers *)
\* the calls whose timeout has been reported
TimedOut == {k \in DOMAIN results : results[k].outcome = "timeout"}
\* a remote call answers after its timeout in this step
AnswersLate == late' < late

\* C37 (step): the late answer of a timed-out call, success or failure,
\* changes neither the breaker's state, its pending probe and reset timer,
\* nor any counter, and delivers no result. Whatever answers arrive late,
\* the breaker closes only on the success of the probe, delivered to its
\* caller within the timeout, and a success or a failure is counted only
\* in the step that delivers that result to a caller, at the timeout at the
\* latest.
C37_Step ==
    /\ AnswersLate =>
        /\ UNCHANGED <<cbState, pendingClose, resetTimer, timerArmed>>
        /\ window' = window
        /\ results' = results
        /\ inflight' = inflight
    /\ (cbState # CLOSED /\ cbState' = CLOSED) =>
        /\ cbState = HALF_OPEN /\ SucceedsNow
        /\ Last(results').latency < timeout
    /\ (window' # window
        /\ SumOver(window', "successes") > SumOver(window, "successes")) =>
        (SucceedsNow /\ Last(results').latency < timeout)
    /\ (window' # window
        /\ SumOver(window', "failures") > SumOver(window, "failures")) =>
        (FailsNow /\ Last(results').latency <= timeout)

\* C37 (state): every execute call has at most one result: the results
\* delivered and the calls pending add up to the calls made; and the calls
\* outstanding after their timeout are among those reported as timed out.
C37_State ==
    /\ Len(results) + Len(inflight) = fired
    /\ late <= Cardinality(TimedOut)
    /\ Stats(window).successes
         <= Cardinality({k \in DOMAIN results : results[k].outcome = "success"})

\* C37: a remote call that completes after its timeout was reported is
\* ignored.
C37_LateIgnored == [](C37_State) /\ [][C37_Step]_vars

\* C37 witness: three calls timed out and opened the breaker, the reset
\* timer made it HALF_OPEN, and all three remote calls have answered since:
\* the breaker is still HALF_OPEN, waiting for its probe, and counts three
\* failures and no success
C37_Witness ==
    /\ Cardinality(TimedOut) = 3 /\ Len(results) = 3
    /\ late = 0
    /\ cbState = HALF_OPEN /\ pendingClose
    /\ Stats(window).successes = 0
    /\ fired = 3

(* ------------------------------------------------ bounded reconnection *)
\* the client has used up its attempts and has nothing under way: no timer,
\* no connect call pending, no open connection it listens to
Exhausted ==
    /\ reconnectAttempts = maxReconnectAttempts
    /\ timers = 0 /\ connecting = 0 /\ AwaitingChannel = 0
    /\ \A i \in DOMAIN connections : connections[i].handlers = 0

\* C38 (step): at the bound no step sets a reconnect timer; a connect that
\* succeeds sets reconnectAttempts to 0; and from a client that has used up
\* its attempts with nothing under way, the only step that changes the
\* client's attempts, calls or timers is a connect call made from outside,
\* and the only other step that changes its flag is one of a close() call,
\* which clears it.
C38_Step ==
    /\ reconnectAttempts = maxReconnectAttempts => timers' <= timers
    /\ (AwaitingChannel' < AwaitingChannel /\ failedRun' = 0)
       => reconnectAttempts' = 0 /\ isConnected'
    /\ Exhausted =>
         \/ connects' = connects + 1 /\ connecting' = 1
         \/ /\ UNCHANGED <<reconnectAttempts, connecting, orphaned, timers, connects,
                           failedRun>>
            /\ \/ isConnected' = isConnected
               \/ ~isConnected' /\ closing # "idle" /\ closing' = "idle"
               \/ ~isConnected' /\ closes' = closes + 1
C38_Scheduling == [][C38_Step]_vars

\* C38: reconnectAttempts is never above maxReconnectAttempts (10), and
\* after ten consecutive failed attempts, once the client has used up its
\* attempts and has nothing under way, it is disconnected.
C38_BoundedReconnect ==
    /\ reconnectAttempts \in 0..maxReconnectAttempts
    /\ maxReconnectAttempts = 10
    /\ (Exhausted /\ failedRun >= maxReconnectAttempts) => ~isConnected

====
